---------------------------- MODULE Spec2Model ----------------------------
(***************************************************************************)
(* A model of the GHCR metadata resolver of cockpit-container-packages     *)
(* (src/unnamed/part_001): the token broker, the tag lister, the           *)
(* description chain (manifest -> index -> config blob -> label), the org  *)
(* listing and the four module-level caches.                               *)
(*                                                                         *)
(* Text is modelled as a sequence of one-character strings, so that        *)
(* trimming, numeric-aware comparison and prefix stripping are computed    *)
(* rather than assumed.  An image reference is a sequence of fragments     *)
(* whose concatenation is the reference.                                   *)
(***************************************************************************)
EXTENDS Integers, Sequences, FiniteSets, TLC

(***************************************************************************)
(* Bounds of the model.                                                    *)
(***************************************************************************)
\* longest tag list of a registry response
MaxTags == 3
\* most entries of a manifest index
MaxEntries == 2
\* async calls that may be in flight together
MaxCalls == 2

(***************************************************************************)
(* Text helpers.                                                           *)
(***************************************************************************)
RECURSIVE TrimLeft(_)
TrimLeft(s) == IF s # <<>> /\ Head(s) = " " THEN TrimLeft(Tail(s)) ELSE s

RECURSIVE TrimRight(_)
TrimRight(s) ==
    IF s # <<>> /\ s[Len(s)] = " " THEN TrimRight(SubSeq(s, 1, Len(s) - 1)) ELSE s

TrimLeftOnly(s) == TrimLeft(s)

\* String.prototype.trim / Python str.strip
Trim(s) == TrimRight(TrimLeft(s))

Digits == {"0", "1", "2", "3", "4", "5", "6", "7", "8", "9"}

DigitVal(ch) ==
    CASE ch = "0" -> 0 [] ch = "1" -> 1 [] ch = "2" -> 2 [] ch = "3" -> 3
      [] ch = "4" -> 4 [] ch = "5" -> 5 [] ch = "6" -> 6 [] ch = "7" -> 7
      [] ch = "8" -> 8 [] ch = "9" -> 9

\* primary collation weight of a non-digit character: punctuation sorts
\* before digits, digits before letters; case is ignored (sensitivity 'base')
CharWeight(ch) ==
    CASE ch = " " -> 0
      [] ch = "_" -> 1
      [] ch = "-" -> 2
      [] ch = "." -> 3
      [] ch \in Digits -> 10
      [] ch \in {"a", "A"} -> 20
      [] ch \in {"b", "B"} -> 21
      [] ch \in {"e", "E"} -> 24
      [] ch \in {"l", "L"} -> 31
      [] ch \in {"s", "S"} -> 38
      [] ch \in {"t", "T"} -> 39
      [] ch \in {"v", "V"} -> 41
      [] OTHER -> 50

RECURSIVE DigitRunLen(_)
DigitRunLen(s) ==
    IF s # <<>> /\ Head(s) \in Digits THEN 1 + DigitRunLen(Tail(s)) ELSE 0

RECURSIVE DigitRunVal(_, _)
DigitRunVal(s, acc) ==
    IF s # <<>> /\ Head(s) \in Digits
    THEN DigitRunVal(Tail(s), 10 * acc + DigitVal(Head(s)))
    ELSE acc

Sign(n) == IF n < 0 THEN -1 ELSE IF n > 0 THEN 1 ELSE 0

\* a.localeCompare(b, undefined, { numeric: true, sensitivity: 'base' }):
\* runs of digits compare by their numeric value, other characters by
\* their primary weight, a proper prefix before the longer string
RECURSIVE localeCompare(_, _)
localeCompare(a, b) ==
    IF a = <<>> /\ b = <<>> THEN 0
    ELSE IF a = <<>> THEN -1
    ELSE IF b = <<>> THEN 1
    ELSE IF Head(a) \in Digits /\ Head(b) \in Digits
    THEN LET va == DigitRunVal(a, 0)
             vb == DigitRunVal(b, 0)
         IN  IF va # vb THEN Sign(va - vb)
             ELSE localeCompare(SubSeq(a, DigitRunLen(a) + 1, Len(a)),
                                SubSeq(b, DigitRunLen(b) + 1, Len(b)))
    ELSE IF CharWeight(Head(a)) # CharWeight(Head(b))
    THEN Sign(CharWeight(Head(a)) - CharWeight(Head(b)))
    ELSE localeCompare(Tail(a), Tail(b))

(***************************************************************************)
(* Tags.                                                                   *)
(***************************************************************************)
latest == <<"l", "a", "t", "e", "s", "t">>

\* the tags a registry response is built from
TagUniverse ==
    { latest, <<"2">>, <<"1", "0">>, <<"1", ".", "0">>, <<"1", ".", "2">>,
      <<"v", "2">>, <<"V", "2">> }

\* uniq.sort comparator of fetchGhcrTagsViaSpawn
TagCompareNoLatest(a, b) == localeCompare(b, a)

TagCompareAscending(a, b) ==
    IF a = latest THEN -1
    ELSE IF b = latest THEN 1
    ELSE localeCompare(a, b)

TagCompare(a, b) ==
    IF a = latest THEN -1
    ELSE IF b = latest THEN 1
    ELSE localeCompare(b, a)

\* Array.from(new Set(tags)): first occurrences, in the order of arrival
RECURSIVE Uniq(_)
Uniq(s) ==
    IF s = <<>> THEN <<>>
    ELSE LET r == Uniq(SubSeq(s, 1, Len(s) - 1))
             x == s[Len(s)]
         IN  IF \E i \in 1..Len(r) : r[i] = x THEN r ELSE Append(r, x)

\* position at which the insertion sort places pivot x in the sorted run s:
\* after every element e with TagCompare(x, e) >= 0 (stable)
RECURSIVE InsertPos(_, _, _)
InsertPos(s, x, i) ==
    IF i > Len(s) THEN i
    ELSE IF TagCompare(x, s[i]) < 0 THEN i
    ELSE InsertPos(s, x, i + 1)

InsertSorted(s, x) ==
    LET p == InsertPos(s, x, 1)
    IN  SubSeq(s, 1, p - 1) \o <<x>> \o SubSeq(s, p, Len(s))

\* Array.prototype.sort with the comparator above
RECURSIVE SortTags(_)
SortTags(s) ==
    IF s = <<>> THEN <<>>
    ELSE InsertSorted(SortTags(SubSeq(s, 1, Len(s) - 1)), s[Len(s)])

(***************************************************************************)
(* Image references.                                                       *)
(***************************************************************************)
\* GHCR_NAMESPACE = "ghcr.io/versa-node/"
GHCR_NAMESPACE == <<"ghcr.io", "/", "versa-node", "/">>

\* fragments matched by ghcr\.io and versa-node under the /i flag
IsGhcrIo(f) == f \in {"ghcr.io", "GHCR.IO"}
IsVersaNode(f) == f \in {"versa-node", "Versa-Node"}

\* s without its first n fragments
Drop(s, n) == SubSeq(s, n + 1, Len(s))

\* s.replace(/^\/?/, ""): at most one leading slash removed
DropOneSlash(s) == IF s # <<>> /\ Head(s) = "/" THEN Tail(s) ELSE s

\* s.replace(/^\/+/, "")
RECURSIVE DropLeadingSlashes(_)
DropLeadingSlashes(s) ==
    IF s # <<>> /\ Head(s) = "/" THEN DropLeadingSlashes(Tail(s)) ELSE s

\* full.split(':')[0]
RECURSIVE BeforeColon(_)
BeforeColon(s) ==
    IF s = <<>> \/ Head(s) = ":" THEN <<>> ELSE <<Head(s)>> \o BeforeColon(Tail(s))

\* s.replace(/^ghcr\.io\/?versa-node\/?/i, "")
StripGhcrVersaNode(s) ==
    IF s # <<>> /\ IsGhcrIo(Head(s))
    THEN LET r == DropOneSlash(Tail(s))
         IN  IF r # <<>> /\ IsVersaNode(Head(r)) THEN DropOneSlash(Tail(r)) ELSE s
    ELSE s

parseGhcrRepoName(full) ==
    IF full = <<>> THEN <<>>
    ELSE DropLeadingSlashes(StripGhcrVersaNode(BeforeColon(full)))

\* /^[A-Za-z0-9._-]+$/.test(tag)
TagChars ==
    Digits \cup {".", "_", "-", "a", "A", "b", "B", "e", "E", "l", "L", "s", "S",
                 "t", "T", "v", "V"}

IsSafeTag(tag) == tag # <<>> /\ \A i \in 1..Len(tag) : tag[i] \in TagChars

\* let tag = (tagIn || "latest").trim(); if (!re.test(tag)) tag = "latest"
NormalizeTag(tagIn) ==
    LET t == Trim(IF tagIn = <<>> THEN latest ELSE tagIn)
    IN  IF IsSafeTag(t) THEN t ELSE latest

(***************************************************************************)
(* What the host and the registry answer.  A response is a record whose    *)
(* field k tells its kind: "fail" (curl exits non-zero: transport error or *)
(* HTTP error under -f), "empty" (an empty body), "text" (a body that is   *)
(* not JSON), "null" (JSON that is no object) and "json" (a document).     *)
(***************************************************************************)
RespFail == [k |-> "fail"]
RespEmpty == [k |-> "empty"]
RespText == [k |-> "text"]
RespNull == [k |-> "null"]

BadResps == {RespFail, RespEmpty, RespText, RespNull}

\* json_is_valid_file: the file is non-empty and parses as JSON
json_is_valid_file(r) == r.k \in {"null", "json"}

NoDigest == <<>>
ManifestDigest(i) == <<"sha256:m", i>>
ConfigDigest(i) == <<"sha256:c", i>>

MT_OCI_MANIFEST == "application/vnd.oci.image.manifest.v1+json"
MT_DOCKER_V2 == "application/vnd.docker.distribution.manifest.v2+json"
MT_OCI_INDEX == "application/vnd.oci.image.index.v1+json"
MT_DOCKER_LIST == "application/vnd.docker.distribution.manifest.list.v2+json"
MT_NONE == ""

\* echo "$TYPE" | grep -qE 'image\.manifest|manifest\.v2'
IsManifestMediaType(t) == t \in {MT_OCI_MANIFEST, MT_DOCKER_V2}

\* "image.index" in t or "manifest.list" in t  (src/src/ImageRunModal.jsx)
IsIndexMediaType(t) == t \in {MT_OCI_INDEX, MT_DOCKER_LIST}

Platforms ==
    { [os |-> "linux", architecture |-> "amd64"],
      [os |-> "linux", architecture |-> "arm64"],
      [os |-> "linux", architecture |-> "arm"],
      [os |-> "windows", architecture |-> "arm64"] }

\* the index entries built from a sequence of platforms: the entry at
\* position i carries the digest of manifest i
EntriesOf(ps) ==
    [i \in 1..Len(ps) |-> [platform |-> ps[i], digest |-> ManifestDigest(i)]]

Min(S) == CHOOSE x \in S : \A y \in S : x <= y
Max(S) == CHOOSE x \in S : \A y \in S : x >= y

\* select_manifest_digest_from_index_file with another preferred platform
SelectPreferring(mans, os, arch) ==
    LET hit == { i \in 1..Len(mans) :
                   mans[i].platform.os = os /\ mans[i].platform.architecture = arch }
    IN  IF hit # {} THEN mans[Min(hit)].digest
        ELSE IF mans # <<>> THEN mans[1].digest
        ELSE NoDigest

SelectAmd64(mans) == SelectPreferring(mans, "linux", "amd64")

SelectAnyOs(mans) ==
    LET hit == { i \in 1..Len(mans) : mans[i].platform.architecture = "arm64" }
    IN  IF hit # {} THEN mans[Min(hit)].digest
        ELSE IF mans # <<>> THEN mans[1].digest
        ELSE NoDigest

SelectFallbackLast(mans) ==
    LET hit == { i \in 1..Len(mans) :
                   mans[i].platform.os = "linux" /\ mans[i].platform.architecture = "arm64" }
    IN  IF hit # {} THEN mans[Min(hit)].digest
        ELSE IF mans # <<>> THEN mans[Len(mans)].digest
        ELSE NoDigest

\* the first entry with os = linux and architecture = arm64, else the first
\* entry, else nothing
select_manifest_digest_from_index_file(mans) ==
    LET hit == { i \in 1..Len(mans) :
                   mans[i].platform.os = "linux" /\ mans[i].platform.architecture = "arm64" }
    IN  IF hit # {} THEN mans[Min(hit)].digest
        ELSE IF mans # <<>> THEN mans[1].digest
        ELSE NoDigest

\* (m.get("config") or {}).get("digest", "")
cfg_digest_from_manifest_file(doc) == doc.config

\* m.get("mediaType", "")
media_type_from_file(doc) == doc.mediaType

\* (labels.get("org.opencontainers.image.description", "") or "").strip()
desc_from_config_file(cfg) == IF cfg.hasLabel THEN Trim(cfg.label) ELSE <<>>

(***************************************************************************)
(* The scripts handed to cockpit.spawn, as functions of the environment e  *)
(* (the host's files and what the endpoints answer).  Each yields          *)
(* rc ("ok": exit status 0, the promise resolves with out; "fail": the     *)
(* promise rejects), out (stdout) and reqs (the requests made, in order).  *)
(***************************************************************************)
\* [ $EC -eq 0 ] && [ -n "$RESP" ]
CurlGood(r) == r.k \notin {"fail", "empty"}

\* the identities of the PAT exchange: the configured user, when there is
\* one, then for U in "oauth2" "token" ""
FallbackIdentities == <<"oauth2", "token", "">>

IdentityOrderTwice(e) ==
    (IF e.user THEN <<"user">> ELSE <<>>) \o FallbackIdentities \o FallbackIdentities

IdentityOrder(e) == (IF e.user THEN <<"user">> ELSE <<>>) \o FallbackIdentities

\* a token request: who asked (anon or the identity) and the kind of answer
TokenReq(id, r) == [req |-> "token", id |-> id, k |-> r.k]

RECURSIVE try_basic(_, _, _)
try_basic(e, ids, reqs) ==
    IF ids = <<>> THEN [rc |-> "ok", out |-> RespEmpty, reqs |-> reqs]
    ELSE LET r == e.basic[Head(ids)]
             rs == Append(reqs, TokenReq(Head(ids), r))
         IN  IF CurlGood(r) THEN [rc |-> "ok", out |-> r, reqs |-> rs]
             ELSE try_basic(e, Tail(ids), rs)

TokenScriptExchangeFirst(e) ==
    IF ~e.spawnOk THEN [rc |-> "fail", out |-> RespEmpty, reqs |-> <<>>]
    ELSE IF e.tokenFile = "pat" /\ CurlGood(e.basic["oauth2"])
    THEN [rc |-> "ok", out |-> e.basic["oauth2"],
          reqs |-> <<TokenReq("oauth2", e.basic["oauth2"])>>]
    ELSE IF CurlGood(e.anon)
    THEN [rc |-> "ok", out |-> e.anon, reqs |-> <<TokenReq("anon", e.anon)>>]
    ELSE [rc |-> "ok", out |-> RespEmpty, reqs |-> <<TokenReq("anon", e.anon)>>]

TokenScriptIgnoresTokenFile(e) ==
    IF ~e.spawnOk THEN [rc |-> "fail", out |-> RespEmpty, reqs |-> <<>>]
    ELSE IF CurlGood(e.anon)
    THEN [rc |-> "ok", out |-> e.anon, reqs |-> <<TokenReq("anon", e.anon)>>]
    ELSE try_basic(e, IdentityOrder(e), <<TokenReq("anon", e.anon)>>)

\* the script of ghcrGetRegistryTokenViaSpawn
TokenScript(e) ==
    IF ~e.spawnOk THEN [rc |-> "fail", out |-> RespEmpty, reqs |-> <<>>]
    ELSE IF CurlGood(e.anon)
    THEN [rc |-> "ok", out |-> e.anon, reqs |-> <<TokenReq("anon", e.anon)>>]
    ELSE IF e.tokenFile # "pat"
    THEN [rc |-> "ok", out |-> RespEmpty, reqs |-> <<TokenReq("anon", e.anon)>>]
    ELSE try_basic(e, IdentityOrder(e), <<TokenReq("anon", e.anon)>>)

\* a request of the tag or description script: what is asked for (ref: the
\* tag or digest), whether it carries an Authorization header, and the kind
\* of answer
Req(what, ref, token, r) ==
    [req |-> what, ref |-> ref, auth |-> token # <<>>, k |-> r.k]

\* the script of fetchGhcrTagsViaSpawn: one curl, whose exit status is the
\* script's
TagsScript(token, e) ==
    IF ~e.spawnOk THEN [rc |-> "fail", out |-> RespEmpty, reqs |-> <<>>]
    ELSE IF e.tags.k = "fail"
    THEN [rc |-> "fail", out |-> RespEmpty, reqs |-> <<Req("tags", <<>>, token, e.tags)>>]
    ELSE [rc |-> "ok", out |-> e.tags, reqs |-> <<Req("tags", <<>>, token, e.tags)>>]

DescScriptConfigFirst(token, e, dig, reqs) ==
    IF dig = NoDigest THEN [rc |-> "ok", out |-> <<>>, reqs |-> reqs]
    ELSE LET c == e.cfg[dig]
             rs == <<Req("blob", dig, token, c)>> \o reqs
         IN  IF ~json_is_valid_file(c) THEN [rc |-> "ok", out |-> <<>>, reqs |-> rs]
             ELSE IF c.k = "null" THEN [rc |-> "fail", out |-> <<>>, reqs |-> rs]
             ELSE [rc |-> "ok", out |-> desc_from_config_file(c), reqs |-> rs]

\* the tail of the description script, from  [ -n "$CFG_DIG" ]  on
DescScriptConfig(token, e, dig, reqs) ==
    IF dig = NoDigest THEN [rc |-> "ok", out |-> <<>>, reqs |-> reqs]
    ELSE LET c == e.cfg[dig]
             rs == Append(reqs, Req("blob", dig, token, c))
         IN  IF ~json_is_valid_file(c) THEN [rc |-> "ok", out |-> <<>>, reqs |-> rs]
             ELSE IF c.k = "null" THEN [rc |-> "fail", out |-> <<>>, reqs |-> rs]
             ELSE [rc |-> "ok", out |-> desc_from_config_file(c), reqs |-> rs]

DescScriptIndexDefaultBlob(token, e, doc, reqs) ==
    LET sel == select_manifest_digest_from_index_file(doc.manifests)
    IN  IF sel = NoDigest THEN DescScriptConfig(token, e, ConfigDigest(0), reqs)
        ELSE LET s == e.sub[sel]
                 rs == Append(reqs, Req("submanifest", sel, token, s))
             IN  IF ~json_is_valid_file(s) THEN [rc |-> "ok", out |-> <<>>, reqs |-> rs]
                 ELSE IF s.k = "null" THEN [rc |-> "fail", out |-> <<>>, reqs |-> rs]
                 ELSE DescScriptConfig(token, e, cfg_digest_from_manifest_file(s), rs)

\* the index branch of the description script
DescScriptIndex(token, e, doc, reqs) ==
    LET sel == select_manifest_digest_from_index_file(doc.manifests)
    IN  IF sel = NoDigest THEN [rc |-> "ok", out |-> <<>>, reqs |-> reqs]
        ELSE LET s == e.sub[sel]
                 rs == Append(reqs, Req("submanifest", sel, token, s))
             IN  IF ~json_is_valid_file(s) THEN [rc |-> "ok", out |-> <<>>, reqs |-> rs]
                 ELSE IF s.k = "null" THEN [rc |-> "fail", out |-> <<>>, reqs |-> rs]
                 ELSE DescScriptConfig(token, e, cfg_digest_from_manifest_file(s), rs)

DescScriptIndexTypes(token, tag, e) ==
    IF ~e.spawnOk THEN [rc |-> "fail", out |-> <<>>, reqs |-> <<>>]
    ELSE LET rs == <<Req("manifest", tag, token, e.top)>>
         IN  IF ~json_is_valid_file(e.top) THEN [rc |-> "ok", out |-> <<>>, reqs |-> rs]
             ELSE IF e.top.k = "null" THEN [rc |-> "fail", out |-> <<>>, reqs |-> rs]
             ELSE IF IsIndexMediaType(media_type_from_file(e.top))
             THEN DescScriptIndex(token, e, e.top, rs)
             ELSE DescScriptConfig(token, e, cfg_digest_from_manifest_file(e.top), rs)

\* the script of fetchGhcrOciDescriptionViaSpawn for tag
DescScript(token, tag, e) ==
    IF ~e.spawnOk THEN [rc |-> "fail", out |-> <<>>, reqs |-> <<>>]
    ELSE LET rs == <<Req("manifest", tag, token, e.top)>>
         IN  IF ~json_is_valid_file(e.top) THEN [rc |-> "ok", out |-> <<>>, reqs |-> rs]
             ELSE IF e.top.k = "null" THEN [rc |-> "fail", out |-> <<>>, reqs |-> rs]
             ELSE IF IsManifestMediaType(media_type_from_file(e.top))
             THEN DescScriptConfig(token, e, cfg_digest_from_manifest_file(e.top), rs)
             ELSE DescScriptIndex(token, e, e.top, rs)

\* the request of the package-listing script: it carries an Authorization
\* header when the token file is readable and not empty
OrgReq(e) == [req |-> "org", ref |-> <<>>, auth |-> e.tokenFile = "pat", k |-> e.org.k]

\* the script of fetchGhcrOrgPackagesViaSpawn: a failed or empty answer is
\* replaced by "[]"
OrgScript(e) ==
    IF ~e.spawnOk THEN [rc |-> "fail", out |-> RespEmpty, reqs |-> <<>>]
    ELSE IF ~CurlGood(e.org)
    THEN [rc |-> "ok", out |-> [k |-> "json", pkgs |-> <<>>], reqs |-> <<OrgReq(e)>>]
    ELSE [rc |-> "ok", out |-> e.org, reqs |-> <<OrgReq(e)>>]

(***************************************************************************)
(* What each function makes of the outcome of its command: val is the      *)
(* value it returns, store tells whether it writes val to its cache, threw *)
(* whether an exception leaves the function.                               *)
(***************************************************************************)
Settled(val, store) == [val |-> val, store |-> store, threw |-> FALSE]
Thrown == [val |-> <<>>, store |-> FALSE, threw |-> TRUE]

TokenSettleNoCatch(res) ==
    IF res.rc = "fail" THEN Thrown
    ELSE IF res.out.k = "empty" THEN Settled(<<>>, TRUE)
    ELSE IF res.out.k \in {"text", "null"} THEN Thrown
    ELSE Settled(IF res.out.hasToken THEN Trim(res.out.token) ELSE <<>>, TRUE)

TokenSettleNoStore(res) ==
    IF res.rc = "fail" THEN Settled(<<>>, FALSE)
    ELSE IF res.out.k = "empty" THEN Settled(<<>>, FALSE)
    ELSE IF res.out.k \in {"text", "null"} THEN Settled(<<>>, FALSE)
    ELSE Settled(IF res.out.hasToken THEN Trim(res.out.token) ELSE <<>>, FALSE)

\* ghcrGetRegistryTokenViaSpawn, try/catch around the spawn
TokenSettle(res) ==
    IF res.rc = "fail" THEN Settled(<<>>, TRUE)
    ELSE IF res.out.k = "empty" THEN Settled(<<>>, TRUE)
    ELSE IF res.out.k \in {"text", "null"} THEN Settled(<<>>, TRUE)
    ELSE Settled(IF res.out.hasToken THEN Trim(res.out.token) ELSE <<>>, TRUE)

TagsSettleStoreAll(res) ==
    IF res.rc = "fail" \/ res.out.k \in {"empty", "text", "null"} THEN Settled(<<>>, TRUE)
    ELSE Settled(SortTags(Uniq(IF res.out.hasTags THEN res.out.tags ELSE <<>>)), TRUE)

\* fetchGhcrTagsViaSpawn, try/catch around the spawn
TagsSettle(res) ==
    IF res.rc = "fail" THEN Settled(<<>>, FALSE)
    ELSE IF res.out.k = "empty" THEN Settled(<<>>, TRUE)
    ELSE IF res.out.k \in {"text", "null"} THEN Settled(<<>>, FALSE)
    ELSE Settled(SortTags(Uniq(IF res.out.hasTags THEN res.out.tags ELSE <<>>)), TRUE)

\* fetchGhcrOciDescriptionViaSpawn, try/catch around the spawn
DescSettle(res) ==
    IF res.rc = "fail" THEN Settled(<<>>, TRUE)
    ELSE Settled(Trim(res.out), TRUE)

\* (pkgs || []).map(p => ({ name, description }))
NormalizePkgs(pkgs) ==
    [i \in 1..Len(pkgs) |->
        [name |-> GHCR_NAMESPACE \o <<pkgs[i].name>>,
         description |-> Trim(pkgs[i].description)]]

OrgSettleNoCatch(res) ==
    IF res.rc = "fail" THEN Thrown
    ELSE IF res.out.k = "text" THEN Thrown
    ELSE IF res.out.k = "null" THEN Settled(<<>>, TRUE)
    ELSE Settled(NormalizePkgs(res.out.pkgs), TRUE)

\* fetchGhcrOrgPackagesViaSpawn, try/catch around the spawn
OrgSettle(res) ==
    IF res.rc = "fail" THEN Settled(<<>>, FALSE)
    ELSE IF res.out.k = "text" THEN Settled(<<>>, FALSE)
    ELSE IF res.out.k = "null" THEN Settled(<<>>, TRUE)
    ELSE Settled(NormalizePkgs(res.out.pkgs), TRUE)

(***************************************************************************)
(* State.                                                                  *)
(***************************************************************************)
VARIABLES
    env,          \* the host's files and what the endpoints answer now
    clock,        \* Date.now(), in milliseconds
    ghcrOrgCache, \* { list, at }
    descCache,    \* <<fullName, tag>> -> description
    tagsCache,    \* repo -> tags
    tokenCache,   \* repo -> token
    calls,        \* the async calls: 1..MaxCalls made by a caller, the rest
                  \* made by enrichListWithDescriptions, one per row
    enrich,       \* the call of enrichListWithDescriptions
    tokenDone     \* history: repositories for which a token call has completed

\* the state of the ImageSearchModal component
VARIABLES
    imageIdentifier,  \* the text typed into the search field
    selectedRegistry, \* the registry chosen
    imageList,        \* the rows displayed
    selected,         \* the row selected: 0 for "", i for the i-th row
    selectedTag,      \* the tag chosen for the selected row
    reloadNonce,      \* bumped by onReload
    pending,          \* what resumes when a call of the component settles
    hubSearch,        \* the /images/search request in flight, if any
    dueEffects,       \* the effects and the typing timeout that are due
    dialogError,      \* the error the dialog displays, "" for none
    tagOptions,       \* the tags offered, and the row name they were listed for
    reloaded,         \* history: the row names whose entries the last reload deleted
    downloaded,       \* history: what the last click on Download did
    state,            \* this.state of the DynamicListForm: list and keyCounter
    userEvents        \* history: how many times the user has acted

ui == <<imageIdentifier, selectedRegistry, imageList, selected, selectedTag,
        reloadNonce, pending, hubSearch, dueEffects, dialogError,
        tagOptions, reloaded, downloaded, state, userEvents>>

vars == <<env, clock, ghcrOrgCache, descCache, tagsCache, tokenCache, calls,
          enrich, tokenDone, ui>>

\* const MIN = 60 * 1000
MIN == 60000

\* longest list handed to enrichListWithDescriptions
MaxList == 2

\* calls the component may have in flight together
MaxTasks == 3

Callers == 1..MaxCalls
Kid(i) == MaxCalls + i
Kids == { Kid(i) : i \in 1..MaxList }
Tasks == { MaxCalls + MaxList + i : i \in 1..MaxTasks }
CallIds == Callers \cup Kids \cup Tasks

Acme == GHCR_NAMESPACE \o <<"acme">>
Beta == GHCR_NAMESPACE \o <<"beta">>

isFreshInclusive(ts, maxAgeMs) == ts # 0 /\ (clock - ts) <= maxAgeMs

\* const isFresh = (ts, maxAgeMs) => ts && (now() - ts) < maxAgeMs
isFresh(ts, maxAgeMs) == ts # 0 /\ (clock - ts) < maxAgeMs

\* const ghcrOrgCache = { list: null, at: 0 }
EmptyOrgCache == [null |-> TRUE, list |-> <<>>, at |-> 0]

NoCall ==
    [op |-> "idle", pc |-> "idle", fullName |-> <<>>, repo |-> <<>>, tag |-> <<>>,
     bypass |-> FALSE, token |-> <<>>, result |-> <<>>, threw |-> FALSE,
     cmds |-> <<>>, rcs |-> <<>>, reqs |-> <<>>, warm |-> FALSE, nonce |-> 0]

NewCall(op, fullName, repo, tag, bypass) ==
    [NoCall EXCEPT !.op = op, !.pc = "start", !.fullName = fullName, !.repo = repo,
                   !.tag = tag, !.bypass = bypass, !.warm = repo \in tokenDone,
                   !.nonce = reloadNonce]

Return(rec, val) == [rec EXCEPT !.pc = "done", !.result = val]

Throw(rec) == [rec EXCEPT !.pc = "done", !.threw = TRUE]

AfterTokenSkipsEmpty(rec, token) ==
    IF rec.op = "token" THEN Return([rec EXCEPT !.token = token], token)
    ELSE IF token = <<>> THEN Return([rec EXCEPT !.token = token], <<>>)
    ELSE [rec EXCEPT !.pc = "spawn", !.token = token, !.cmds = Append(@, rec.op)]

\* the caller of ghcrGetRegistryTokenViaSpawn resumes with the token: the
\* token call itself returns it, the others build their script and spawn it
AfterToken(rec, token) ==
    IF rec.op = "token" THEN Return([rec EXCEPT !.token = token], token)
    ELSE [rec EXCEPT !.pc = "spawn", !.token = token, !.cmds = Append(@, rec.op)]

TokenCacheHitNever(repo, bypass) == FALSE

TokenCacheHitNonEmpty(repo, bypass) ==
    ~bypass /\ repo \in DOMAIN tokenCache /\ tokenCache[repo] # <<>>

TokenCacheHitAlways(repo, bypass) == repo \in DOMAIN tokenCache

\* if (!bypassCache && tokenCache.has(repo)) return tokenCache.get(repo) || ""
TokenCacheHit(repo, bypass) == ~bypass /\ repo \in DOMAIN tokenCache

\* ghcrGetRegistryTokenViaSpawn up to its await
AcquireToken(rec) ==
    IF TokenCacheHit(rec.repo, rec.bypass) THEN AfterToken(rec, tokenCache[rec.repo])
    ELSE [rec EXCEPT !.pc = "token", !.cmds = Append(@, "token")]

\* fetchGhcrTagsViaSpawn up to its first await
TagsStart(fullName, bypass) ==
    LET repo == parseGhcrRepoName(fullName)
        rec == NewCall("tags", fullName, repo, <<>>, bypass)
    IN  IF repo = <<>> THEN Return(rec, <<>>)
        ELSE IF ~bypass /\ repo \in DOMAIN tagsCache THEN Return(rec, tagsCache[repo])
        ELSE AcquireToken(rec)

DescStartNoCache(fullName, tagIn, bypass) ==
    LET repo == parseGhcrRepoName(fullName)
        rec == NewCall("desc", fullName, repo, NormalizeTag(tagIn), bypass)
    IN  IF repo = <<>> THEN Return(rec, <<>>) ELSE AcquireToken(rec)

\* fetchGhcrOciDescriptionViaSpawn up to its first await
DescStart(fullName, tagIn, bypass) ==
    LET repo == parseGhcrRepoName(fullName)
        tag == NormalizeTag(tagIn)
        rec == NewCall("desc", fullName, repo, tag, bypass)
        cacheKey == <<fullName, tag>>
    IN  IF repo = <<>> THEN Return(rec, <<>>)
        ELSE IF ~bypass /\ cacheKey \in DOMAIN descCache
        THEN Return(rec, descCache[cacheKey])
        ELSE AcquireToken(rec)

\* fetchGhcrOrgPackagesViaSpawn up to its await
OrgStart(bypass) ==
    LET rec == NewCall("org", <<>>, <<>>, <<>>, bypass)
    IN  IF ~bypass /\ ~ghcrOrgCache.null /\ isFresh(ghcrOrgCache.at, 10 * MIN)
        THEN Return(rec, ghcrOrgCache.list)
        ELSE [rec EXCEPT !.pc = "spawn", !.cmds = Append(@, "org")]

Free(c) == calls[c].pc \in {"idle", "done"}

(***************************************************************************)
(* Actions: a caller starts one of the four functions.                     *)
(***************************************************************************)
ghcrGetRegistryTokenViaSpawn(c, repo, bypass) ==
    /\ Free(c)
    /\ calls' = [calls EXCEPT ![c] = AcquireToken(NewCall("token", <<>>, repo, <<>>, bypass))]
    /\ UNCHANGED <<ui, env, clock, ghcrOrgCache, descCache, tagsCache, tokenCache, enrich,
                   tokenDone>>

fetchGhcrTagsViaSpawn(c, fullName, bypass) ==
    /\ Free(c)
    /\ calls' = [calls EXCEPT ![c] = TagsStart(fullName, bypass)]
    /\ UNCHANGED <<ui, env, clock, ghcrOrgCache, descCache, tagsCache, tokenCache, enrich,
                   tokenDone>>

fetchGhcrOciDescriptionViaSpawn(c, fullName, tagIn, bypass) ==
    /\ Free(c)
    /\ calls' = [calls EXCEPT ![c] = DescStart(fullName, tagIn, bypass)]
    /\ UNCHANGED <<ui, env, clock, ghcrOrgCache, descCache, tagsCache, tokenCache, enrich,
                   tokenDone>>

fetchGhcrOrgPackagesViaSpawn(c, bypass) ==
    /\ Free(c)
    /\ calls' = [calls EXCEPT ![c] = OrgStart(bypass)]
    /\ UNCHANGED <<ui, env, clock, ghcrOrgCache, descCache, tagsCache, tokenCache, enrich,
                   tokenDone>>

(***************************************************************************)
(* Actions: a command completes and the function awaiting it resumes.      *)
(***************************************************************************)
\* the token command of call c completes
TokenReturns(c) ==
    /\ calls[c].pc = "token"
    /\ LET rec == calls[c]
           res == TokenScript(env)
           s == TokenSettle(res)
           seen == [rec EXCEPT !.reqs = @ \o res.reqs, !.rcs = Append(@, res.rc)]
       IN  /\ tokenCache' =
                IF s.store
                THEN [r \in DOMAIN tokenCache \cup {rec.repo} |->
                         IF r = rec.repo THEN s.val ELSE tokenCache[r]]
                ELSE tokenCache
           /\ calls' = [calls EXCEPT ![c] =
                          IF s.threw THEN Throw(seen) ELSE AfterToken(seen, s.val)]
           /\ tokenDone' = tokenDone \cup {rec.repo}
    /\ UNCHANGED <<ui, env, clock, ghcrOrgCache, descCache, tagsCache, enrich>>

\* the tag command of call c completes
TagsReturns(c) ==
    /\ calls[c].pc = "spawn" /\ calls[c].op = "tags"
    /\ LET rec == calls[c]
           res == TagsScript(rec.token, env)
           s == TagsSettle(res)
           seen == [rec EXCEPT !.reqs = @ \o res.reqs, !.rcs = Append(@, res.rc)]
       IN  /\ tagsCache' =
                IF s.store
                THEN [r \in DOMAIN tagsCache \cup {rec.repo} |->
                         IF r = rec.repo THEN s.val ELSE tagsCache[r]]
                ELSE tagsCache
           /\ calls' = [calls EXCEPT ![c] =
                          IF s.threw THEN Throw(seen) ELSE Return(seen, s.val)]
    /\ UNCHANGED <<ui, env, clock, ghcrOrgCache, descCache, tokenCache, enrich, tokenDone>>

\* the description command of call c completes
DescReturns(c) ==
    /\ calls[c].pc = "spawn" /\ calls[c].op = "desc"
    /\ LET rec == calls[c]
           res == DescScript(rec.token, rec.tag, env)
           s == DescSettle(res)
           seen == [rec EXCEPT !.reqs = @ \o res.reqs, !.rcs = Append(@, res.rc)]
           cacheKey == <<rec.fullName, rec.tag>>
       IN  /\ descCache' =
                IF s.store
                THEN [k \in DOMAIN descCache \cup {cacheKey} |->
                         IF k = cacheKey THEN s.val ELSE descCache[k]]
                ELSE descCache
           /\ calls' = [calls EXCEPT ![c] =
                          IF s.threw THEN Throw(seen) ELSE Return(seen, s.val)]
    /\ UNCHANGED <<ui, env, clock, ghcrOrgCache, tagsCache, tokenCache, enrich, tokenDone>>

\* the package-listing command of call c completes
OrgReturns(c) ==
    /\ calls[c].pc = "spawn" /\ calls[c].op = "org"
    /\ LET rec == calls[c]
           res == OrgScript(env)
           s == OrgSettle(res)
           seen == [rec EXCEPT !.reqs = @ \o res.reqs, !.rcs = Append(@, res.rc)]
       IN  /\ ghcrOrgCache' =
                IF s.store THEN [null |-> FALSE, list |-> s.val, at |-> clock]
                ELSE ghcrOrgCache
           /\ calls' = [calls EXCEPT ![c] =
                          IF s.threw THEN Throw(seen) ELSE Return(seen, s.val)]
    /\ UNCHANGED <<ui, env, clock, descCache, tagsCache, tokenCache, enrich, tokenDone>>

(***************************************************************************)
(* enrichListWithDescriptions: one description call per GHCR row, all      *)
(* started together; the list is merged once every call has settled.       *)
(***************************************************************************)
\* /^ghcr\.io\/versa-node\//i.test(row.name)
IsVersaNodeGhcr(name) ==
    /\ Len(name) >= 4
    /\ IsGhcrIo(name[1]) /\ name[2] = "/" /\ IsVersaNode(name[3]) /\ name[4] = "/"

NoEnrich == [pc |-> "idle", list |-> <<>>, bypass |-> FALSE, out |-> <<>>, threw |-> FALSE]

EnrichIdxsLacking(list) ==
    { i \in 1..Len(list) : IsVersaNodeGhcr(list[i].name) /\ list[i].description = <<>> }

\* idxs
EnrichIdxs(list) == { i \in 1..Len(list) : IsVersaNodeGhcr(list[i].name) }

KidPromiseNoCatch(rec) == [rejected |-> rec.threw, val |-> rec.result]

\* fetchGhcrOciDescriptionViaSpawn(...).then(desc => desc || "").catch(() => "")
KidPromise(rec) ==
    [rejected |-> FALSE, val |-> IF rec.threw THEN <<>> ELSE rec.result]

MergeDescsAll(list, descs) ==
    [i \in 1..Len(list) |->
        IF i \in DOMAIN descs THEN [list[i] EXCEPT !.description = descs[i]] ELSE list[i]]

\* descs.forEach((desc, k) => { if (desc) out[i] = { ...out[i], description: desc } })
MergeDescs(list, descs) ==
    [i \in 1..Len(list) |->
        IF i \in DOMAIN descs /\ descs[i] # <<>>
        THEN [list[i] EXCEPT !.description = descs[i]]
        ELSE list[i]]

\* idxs.map(i => fetchGhcrOciDescriptionViaSpawn(out[i].name, "latest", ...))
EnrichCalls(cs, list, bypass) ==
    [c \in CallIds |->
        IF c \notin Kids THEN cs[c]
        ELSE IF c - MaxCalls \in EnrichIdxs(list)
        THEN DescStart(list[c - MaxCalls].name, latest, bypass)
        ELSE NoCall]

\* enrichListWithDescriptions up to await Promise.all
EnrichStart(list, bypass) ==
    [pc |-> IF EnrichIdxs(list) = {} THEN "done" ELSE "wait", list |-> list,
     bypass |-> bypass, out |-> list, threw |-> FALSE]

enrichListWithDescriptions(list, bypass) ==
    /\ enrich.pc \in {"idle", "done"}
    /\ \A k \in Kids : Free(k)
    /\ calls' = EnrichCalls(calls, list, bypass)
    /\ enrich' = EnrichStart(list, bypass)
    /\ UNCHANGED <<ui, env, clock, ghcrOrgCache, descCache, tagsCache, tokenCache, tokenDone>>

EnrichReturnsEarly ==
    /\ enrich.pc = "wait"
    /\ LET idxs == EnrichIdxs(enrich.list)
           settled == { i \in idxs : calls[Kid(i)].pc = "done" }
       IN  /\ settled # {}
           /\ enrich' = [enrich EXCEPT
                           !.pc = IF settled = idxs THEN "done" ELSE "wait",
                           !.out = MergeDescs(enrich.list,
                                              [i \in settled |-> KidPromise(calls[Kid(i)]).val])]
    /\ UNCHANGED <<ui, env, clock, ghcrOrgCache, descCache, tagsCache, tokenCache, calls,
                   tokenDone>>

\* await Promise.all(promises) resumes
EnrichReturns ==
    /\ enrich.pc = "wait"
    /\ LET idxs == EnrichIdxs(enrich.list)
       IN  /\ \A i \in idxs : calls[Kid(i)].pc = "done"
           /\ enrich' =
                IF \E i \in idxs : KidPromise(calls[Kid(i)]).rejected
                THEN [enrich EXCEPT !.pc = "done", !.threw = TRUE]
                ELSE [enrich EXCEPT
                        !.pc = "done",
                        !.out = MergeDescs(enrich.list,
                                           [i \in idxs |-> KidPromise(calls[Kid(i)]).val])]
    /\ UNCHANGED <<ui, env, clock, ghcrOrgCache, descCache, tagsCache, tokenCache, calls,
                   tokenDone>>

(***************************************************************************)
(* Environments.                                                           *)
(***************************************************************************)
TokenDoc(t) == [k |-> "json", hasToken |-> TRUE, token |-> t]
NoTokenDoc == [k |-> "json", hasToken |-> FALSE, token |-> <<>>]
TagsDoc(tags) == [k |-> "json", hasTags |-> TRUE, tags |-> tags]
NoTagsDoc == [k |-> "json", hasTags |-> FALSE, tags |-> <<>>]
ManifestDoc(mt, dig) ==
    [k |-> "json", mediaType |-> mt, config |-> dig, manifests |-> <<>>]
IndexDoc(mt, ps) ==
    [k |-> "json", mediaType |-> mt, config |-> NoDigest, manifests |-> EntriesOf(ps)]
ConfigDoc(label) == [k |-> "json", hasLabel |-> TRUE, label |-> label]
NoLabelDoc == [k |-> "json", hasLabel |-> FALSE, label |-> <<>>]
OrgDoc(pkgs) == [k |-> "json", pkgs |-> pkgs]

Identities == {"user", "oauth2", "token", ""}

\* the token each way of asking yields, so that a token tells where it came from
TokenOf(id) ==
    CASE id = "anon" -> <<"a">>
      [] id = "user" -> <<"u">>
      [] id = "oauth2" -> <<"o">>
      [] id = "token" -> <<"t">>
      [] id = "" -> <<"e">>

DigitChar(i) == CHOOSE ch \in Digits : DigitVal(ch) = i

\* the description label of config blob i, with blanks around it
LabelOf(i) == <<" ", "D", DigitChar(i), " ">>

ManifestDigests == { ManifestDigest(i) : i \in 1..MaxEntries }
ConfigDigests == { ConfigDigest(i) : i \in 0..MaxEntries }

PlatformSeqs == UNION { [1..n -> Platforms] : n \in 0..MaxEntries }

TagSeqs == UNION { [1..n -> TagUniverse] : n \in 0..MaxTags }

\* a host with a PAT and a user file, a registry where every request
\* succeeds: tags, a two-platform index, labelled config blobs, two packages
GoodEnv ==
    [spawnOk |-> TRUE,
     anon |-> TokenDoc(TokenOf("anon")),
     tokenFile |-> "pat",
     user |-> TRUE,
     basic |-> [id \in Identities |-> TokenDoc(TokenOf(id))],
     tags |-> TagsDoc(<<<<"2">>, <<"1", "0">>, latest>>),
     top |-> IndexDoc(MT_OCI_INDEX, <<[os |-> "linux", architecture |-> "amd64"],
                                      [os |-> "linux", architecture |-> "arm64"]>>),
     sub |-> [d \in ManifestDigests |-> ManifestDoc(MT_OCI_MANIFEST, ConfigDigest(d[2]))],
     cfg |-> [d \in ConfigDigests |-> ConfigDoc(LabelOf(d[2]))],
     org |-> OrgDoc(<<[name |-> "acme", description |-> <<" ", "g">>],
                      [name |-> "beta", description |-> <<>>]>>)]

\* every endpoint answers r
AllAnswer(r) ==
    [GoodEnv EXCEPT !.anon = r, !.basic = [id \in Identities |-> r], !.tags = r,
                    !.top = r, !.sub = [d \in ManifestDigests |-> r],
                    !.cfg = [d \in ConfigDigests |-> r], !.org = r]

\* the command runner rejects every command
RejectEnv == [GoodEnv EXCEPT !.spawnOk = FALSE]

\* the environments of the resolver specification
ScenarioEnvs == {GoodEnv, RejectEnv} \cup { AllAnswer(r) : r \in BadResps }

\* what the manifest endpoint may answer for a tag
TopDocs ==
    BadResps
    \cup { ManifestDoc(mt, d) : mt \in {MT_OCI_MANIFEST, MT_DOCKER_V2, MT_NONE},
                                d \in {NoDigest, ConfigDigest(0)} }
    \cup { IndexDoc(mt, ps) : mt \in {MT_OCI_INDEX, MT_DOCKER_LIST, MT_NONE},
                              ps \in PlatformSeqs }

\* what it may answer for the digest d of an index entry
SubResps(d) ==
    { RespText, ManifestDoc(MT_OCI_MANIFEST, ConfigDigest(d[2])),
      ManifestDoc(MT_OCI_MANIFEST, NoDigest) }

\* what the blob endpoint may answer for the config digest d
CfgResps(d) == { RespFail, RespText, RespNull, NoLabelDoc, ConfigDoc(LabelOf(d[2])) }

\* the registries of the description-chain specification
ChainEnvs ==
    { [GoodEnv EXCEPT !.top = t, !.sub = s, !.cfg = c] :
        t \in TopDocs,
        s \in { f \in [ManifestDigests -> UNION { SubResps(d) : d \in ManifestDigests }] :
                  \A d \in ManifestDigests : f[d] \in SubResps(d) },
        c \in { f \in [ConfigDigests -> UNION { CfgResps(d) : d \in ConfigDigests }] :
                  \A d \in ConfigDigests : f[d] \in CfgResps(d) } }

\* the registries of the tag-list specification
TagEnvs ==
    { [GoodEnv EXCEPT !.tags = TagsDoc(ts)] : ts \in TagSeqs }
    \cup { [GoodEnv EXCEPT !.tags = r] : r \in BadResps \cup {NoTagsDoc} }

\* what the token endpoint may answer an anonymous request
AnonResps ==
    BadResps \cup { NoTokenDoc, TokenDoc(<<>>), TokenDoc(TokenOf("anon")),
                    TokenDoc(<<" ">> \o TokenOf("anon")) }

\* the hosts and token endpoints of the token specification
TokenEnvs ==
    { [GoodEnv EXCEPT !.anon = a, !.tokenFile = f, !.user = u,
                      !.basic = [id \in Identities |->
                                    IF id \in good THEN TokenDoc(TokenOf(id))
                                    ELSE RespFail]] :
        a \in AnonResps, f \in {"absent", "empty", "pat"}, u \in BOOLEAN,
        good \in { {}, {""}, {"token", ""}, {"oauth2", "token"}, {"user", "oauth2"},
                   Identities } }
    \cup {RejectEnv}

(***************************************************************************)
(* Specifications.                                                         *)
(***************************************************************************)
\* nothing resumes when the call settles
NoCont == [kind |-> "none", idx |-> 0, name |-> <<>>, bypass |-> FALSE]

\* const [tagOptions, setTagOptions] = useState([])
\* no click on Download so far
NoDownload == [k |-> "none", name |-> <<>>, tag |-> <<>>, custom |-> <<>>, n |-> 0]

NoTagOptions == [name |-> <<>>, tags |-> <<>>]

\* the component as useState initialises it
InitUi ==
    /\ imageIdentifier = <<>>
    /\ selectedRegistry = "ghcr.io"
    /\ imageList = <<>>
    /\ selected = 0
    /\ selectedTag = latest
    /\ reloadNonce = 0
    /\ pending = [c \in Tasks |-> NoCont]
    /\ hubSearch = FALSE
    /\ dueEffects = {"mount"}
    /\ dialogError = ""
    /\ tagOptions = NoTagOptions
    /\ reloaded = {}
    /\ downloaded = NoDownload
    /\ userEvents = 0

(***************************************************************************)
(* DynamicListForm: the rows of a list, each with a key; a removed row     *)
(* leaves a hole.  A row is a record: present tells a row from a hole,     *)
(* hasKey whether its key is defined, v is the value of its field.         *)
(***************************************************************************)
\* rows a list may hold
MaxRows == 3

\* largest key handed out
MaxKey == 4

\* out[idx] = undefined
Hole == [present |-> FALSE, hasKey |-> FALSE, key |-> 0, v |-> "none"]

\* a row with key k and field value v
Row(k, v) == [present |-> TRUE, hasKey |-> TRUE, key |-> k, v |-> v]

\* a row of props.value that carries no key
Unkeyed(v) == [present |-> TRUE, hasKey |-> FALSE, key |-> 0, v |-> v]

\* _hydrateFromValue(value, startKey): holes are kept, a row keeps its key
\* if it has one and is given the next key otherwise
RECURSIVE _hydrateFromValue(_, _)
_hydrateFromValue(value, startKey) ==
    IF value = <<>> THEN [list |-> <<>>, nextKey |-> startKey]
    ELSE LET row == Head(value)
             takes == row.present /\ ~row.hasKey
             rest == _hydrateFromValue(Tail(value), IF takes THEN startKey + 1 ELSE startKey)
         IN  [list |-> <<IF takes THEN Row(startKey, row.v) ELSE row>> \o rest.list,
              nextKey |-> rest.nextKey]

\* constructor(props): this.state = { list, keyCounter: nextKey }
DynamicListForm(value) ==
    LET h == _hydrateFromValue(value, 0)
    IN  [list |-> h.list, keyCounter |-> h.nextKey]

\* everything but the DynamicListForm
InitRest ==
    /\ clock = MIN
    /\ ghcrOrgCache = EmptyOrgCache
    /\ descCache = <<>>
    /\ tagsCache = <<>>
    /\ tokenCache = <<>>
    /\ calls = [c \in CallIds |-> NoCall]
    /\ enrich = NoEnrich
    /\ tokenDone = {}
    /\ InitUi

InitState ==
    /\ InitRest
    /\ state = DynamicListForm(<<>>)

\* the description chain for one repository, over every registry content
InitChain == env \in ChainEnvs /\ InitState

NextChain ==
    \/ \E tagIn \in {latest, <<>>} :
         fetchGhcrOciDescriptionViaSpawn(1, Acme, tagIn, FALSE)
    \/ TokenReturns(1)
    \/ DescReturns(1)

SpecChain == InitChain /\ [][NextChain]_vars

\* the tag lister for one repository, over every tag collection
InitTags == env \in TagEnvs /\ InitState

NextTags ==
    \/ \E b \in BOOLEAN : fetchGhcrTagsViaSpawn(1, Acme, b)
    \/ TokenReturns(1)
    \/ TagsReturns(1)

SpecTags == InitTags /\ [][NextTags]_vars

\* the token broker, over every host and token endpoint
InitToken == env \in TokenEnvs /\ InitState

NextToken ==
    \/ \E c \in Callers, repo \in {<<"acme">>, <<"beta">>}, b \in BOOLEAN :
         ghcrGetRegistryTokenViaSpawn(c, repo, b)
    \/ \E c \in Callers : TokenReturns(c)

SpecToken == InitToken /\ [][NextToken]_vars

\* the rows handed to enrichListWithDescriptions
Rows ==
    { [name |-> Acme, description |-> <<>>],
      [name |-> <<"nginx">>, description |-> <<"n">>] }

Lists == UNION { [1..n -> Rows] : n \in 0..MaxList }

\* the host or the registry changes while no command is running
EnvChange ==
    /\ \A c \in CallIds : Free(c)
    /\ enrich.pc # "wait"
    /\ env' \in ScenarioEnvs \ {env}
    \* the callers have consumed what their calls returned; the caches stay
    /\ calls' = [c \in CallIds |-> NoCall]
    /\ enrich' = NoEnrich
    /\ UNCHANGED <<ui, clock, ghcrOrgCache, descCache, tagsCache, tokenCache, tokenDone>>

\* the resolver: every operation, one direct call at a time beside the calls
\* of enrichListWithDescriptions, over hosts and registries that change
Init == env \in ScenarioEnvs /\ InitState

Next ==
    \/ \E b \in BOOLEAN : ghcrGetRegistryTokenViaSpawn(1, <<"acme">>, b)
    \/ \E b \in BOOLEAN : fetchGhcrTagsViaSpawn(1, Acme, b)
    \/ \E b \in BOOLEAN : fetchGhcrOciDescriptionViaSpawn(1, Acme, latest, b)
    \/ \E b \in BOOLEAN : fetchGhcrOrgPackagesViaSpawn(1, b)
    \/ \E c \in CallIds : TokenReturns(c)
    \/ TagsReturns(1)
    \/ \E c \in CallIds : DescReturns(c)
    \/ OrgReturns(1)
    \/ \E list \in Lists, b \in BOOLEAN : enrichListWithDescriptions(list, b)
    \/ EnrichReturns
    \/ EnvChange

Spec == Init /\ [][Next]_vars

(***************************************************************************)
(* The ImageSearchModal component: what the user does, the effects that    *)
(* follow a render, and what resumes when a call settles.                  *)
(***************************************************************************)
\* const isGhcr = (reg) => (reg || "").trim().toLowerCase() === "ghcr.io"
isGhcr(reg) == reg \in {"ghcr.io", "GHCR.IO"}

\* /^ghcr\.io\/versa-node\/[^/]+/i.test(term) || /^versa-node\/[^/]+/i.test(term)
isGhcrVersaNodeTerm(term) ==
    \/ /\ Len(term) >= 5
       /\ IsGhcrIo(term[1]) /\ term[2] = "/" /\ IsVersaNode(term[3]) /\ term[4] = "/"
       /\ term[5] # "/"
    \/ /\ Len(term) >= 3
       /\ IsVersaNode(term[1]) /\ term[2] = "/" /\ term[3] # "/"

\* s.replace(/^ghcr\.io\/?/i, "")
StripGhcrIo(s) == IF s # <<>> /\ IsGhcrIo(Head(s)) THEN DropOneSlash(Tail(s)) ELSE s

\* s.replace(/^versa-node\/?/i, "")
StripVersaNode(s) == IF s # <<>> /\ IsVersaNode(Head(s)) THEN DropOneSlash(Tail(s)) ELSE s

\* s.replace(/\/+$/, "")
RECURSIVE DropTrailingSlashes(_)
DropTrailingSlashes(s) ==
    IF s # <<>> /\ s[Len(s)] = "/" THEN DropTrailingSlashes(SubSeq(s, 1, Len(s) - 1))
    ELSE s

buildGhcrVersaNodeName(txt) ==
    DropTrailingSlashes(GHCR_NAMESPACE \o StripVersaNode(StripGhcrIo(Trim(txt))))

\* typedRepo of onSearchTriggered
TypedRepo(term) == Trim(StripVersaNode(StripGhcrVersaNode(term)))

\* what the user may type
Terms ==
    { <<>>, <<"acme", ":", "1.0">>, <<"versa-node", "/", "acme">> }

\* what /images/search may answer
HubResults ==
    { <<>>,
      <<[name |-> <<"acme">>, description |-> <<>>],
        [name |-> <<"nginx">>, description |-> <<"n">>]>> }

\* the tags the user may pick for the selected row
PickableTags == {<<"2">>}

\* a reload is possible this many times
MaxReloads == 1

\* the user acts at most this many times
MaxEvents == 3

\* the user acts
UserEvent == userEvents < MaxEvents /\ userEvents' = userEvents + 1

\* the task slots in which the component can start a call
FreeTasks == { c \in Tasks : Free(c) /\ pending[c].kind = "none" }

\* a call of the component has settled and its continuation has not run yet
Settling ==
    \E c \in Tasks :
        \/ pending[c].kind \notin {"none", "enrich"} /\ calls[c].pc = "done"
        \/ pending[c].kind = "enrich" /\ enrich.pc = "done"

\* the component is at rest: no continuation and no effect is due
AtRest == ~Settling /\ dueEffects = {}

\* the effects that are due after a render in which selected, reloadNonce or
\* selectedTag changed
DueFrom(due, sel, nonce, tag) ==
    due
    \cup (IF sel # selected \/ nonce # reloadNonce THEN {"selection"} ELSE {})
    \cup (IF tag # selectedTag THEN {"tag"} ELSE {})

Due(sel, nonce, tag) == DueFrom(dueEffects, sel, nonce, tag)

\* the effects in the order of their definition, then the typing timeout
EffectOrder == <<"mount", "registry", "identifier", "selection", "tag", "typing">>

\* effect e runs next
Runs(e) ==
    /\ e \in dueEffects
    /\ \A i, j \in 1..Len(EffectOrder) :
          EffectOrder[j] = e /\ i < j => EffectOrder[i] \notin dueEffects

\* the user types into the search field
onChangeIdentifier(term) ==
    /\ AtRest /\ UserEvent
    /\ UNCHANGED <<tagOptions, reloaded, downloaded, state>>
    /\ UNCHANGED dialogError
    /\ term # imageIdentifier
    /\ imageIdentifier' = term
    /\ dueEffects' = dueEffects \cup {"identifier", "typing"}
    /\ UNCHANGED <<selectedRegistry, imageList, selected, selectedTag, reloadNonce,
                   pending, hubSearch>>
    /\ UNCHANGED <<env, clock, ghcrOrgCache, descCache, tagsCache, tokenCache, calls,
                   enrich, tokenDone>>

\* the user selects row i
onSelect(i) ==
    /\ AtRest /\ UserEvent
    /\ UNCHANGED <<tagOptions, reloaded, downloaded, state>>
    /\ UNCHANGED dialogError
    /\ i \in 1..Len(imageList) /\ i # selected
    /\ selected' = i
    /\ dueEffects' = Due(i, reloadNonce, selectedTag)
    /\ UNCHANGED <<imageIdentifier, selectedRegistry, imageList, selectedTag, reloadNonce,
                   pending, hubSearch>>
    /\ UNCHANGED <<env, clock, ghcrOrgCache, descCache, tagsCache, tokenCache, calls,
                   enrich, tokenDone>>

\* the user picks a tag for the selected row
onTagSelect(tag) ==
    /\ AtRest /\ UserEvent
    /\ UNCHANGED <<tagOptions, reloaded, downloaded, state>>
    /\ UNCHANGED dialogError
    /\ selected \in 1..Len(imageList) /\ tag # selectedTag
    /\ selectedTag' = tag
    /\ dueEffects' = Due(selected, reloadNonce, tag)
    /\ UNCHANGED <<imageIdentifier, selectedRegistry, imageList, selected, reloadNonce,
                   pending, hubSearch>>
    /\ UNCHANGED <<env, clock, ghcrOrgCache, descCache, tagsCache, tokenCache, calls,
                   enrich, tokenDone>>

\* useEffect(..., [selected, reloadNonce]): tags and description of the
\* selected row
SelectionEffect ==
    /\ Runs("selection")
    /\ UNCHANGED <<reloaded, downloaded, state>>
    /\ IF selected \in 1..Len(imageList) /\ imageList[selected].name # <<>>
       THEN /\ selectedTag' = latest
            /\ tagOptions' = NoTagOptions
            /\ dueEffects' = Due(selected, reloadNonce, latest) \ {"selection"}
            /\ IF IsVersaNodeGhcr(imageList[selected].name)
               THEN /\ Cardinality(FreeTasks) >= 2
                    /\ LET a == Min(FreeTasks)
                           b == Min(FreeTasks \ {a})
                           name == imageList[selected].name
                       IN  /\ calls' = [calls EXCEPT
                                          ![a] = TagsStart(name, FALSE),
                                          ![b] = DescStart(name, selectedTag, FALSE)]
                           /\ pending' = [pending EXCEPT
                                            ![a] = [NoCont EXCEPT !.kind = "tags"],
                                            ![b] = [NoCont EXCEPT !.kind = "row",
                                                                  !.idx = selected,
                                                                  !.name = name]]
               ELSE UNCHANGED <<calls, pending>>
       ELSE /\ dueEffects' = dueEffects \ {"selection"}
            /\ UNCHANGED <<selectedTag, calls, pending, tagOptions>>
    /\ UNCHANGED <<imageIdentifier, selectedRegistry, imageList, selected, reloadNonce,
                   hubSearch>>
    /\ UNCHANGED <<dialogError, userEvents>>
    /\ UNCHANGED <<env, clock, ghcrOrgCache, descCache, tagsCache, tokenCache, enrich,
                   tokenDone>>

\* useEffect(..., [selectedTag]): description of the selected row for the tag
TagEffect ==
    /\ Runs("tag")
    /\ UNCHANGED <<tagOptions, reloaded, downloaded, state>>
    /\ dueEffects' = dueEffects \ {"tag"}
    /\ IF /\ selected \in 1..Len(imageList) /\ imageList[selected].name # <<>>
          /\ IsVersaNodeGhcr(imageList[selected].name)
       THEN /\ FreeTasks # {}
            /\ LET a == Min(FreeTasks)
                   name == imageList[selected].name
               IN  /\ calls' = [calls EXCEPT ![a] = DescStart(name, selectedTag, FALSE)]
                   /\ pending' = [pending EXCEPT
                                    ![a] = [NoCont EXCEPT !.kind = "row",
                                                          !.idx = selected,
                                                          !.name = name]]
       ELSE UNCHANGED <<calls, pending>>
    /\ UNCHANGED <<imageIdentifier, selectedRegistry, imageList, selected, selectedTag,
                   reloadNonce, hubSearch>>
    /\ UNCHANGED <<dialogError, userEvents>>
    /\ UNCHANGED <<env, clock, ghcrOrgCache, descCache, tagsCache, tokenCache, enrich,
                   tokenDone>>

\* the length of the typed text: a separator is one character, every other
\* fragment at least two
RECURSIVE TextLen(_)
TextLen(term) ==
    IF term = <<>> THEN 0
    ELSE (IF Head(term) \in {"/", ":", " "} THEN 1 ELSE 2) + TextLen(Tail(term))

\* descCache.get(`${fullName}@latest`) || "", read from the table dc
CachedDesc(dc, fullName) ==
    IF <<fullName, latest>> \in DOMAIN dc THEN dc[<<fullName, latest>>] ELSE <<>>

\* onSearchTriggered(searchRegistry, forceSearch, { bypassCache }) up to its
\* first await, in a render whose reloadNonce is nonce and whose description
\* table is dc; due are the effects due apart from those of this run
\* (closeActiveConnection drops the /images/search request in flight)
Search(searchRegistry, dc, nonce, forceSearch, bypass, due) ==
    LET targetGhcr == isGhcr(searchRegistry) \/ isGhcrVersaNodeTerm(imageIdentifier)
        typedRepo == TypedRepo(imageIdentifier)
        fullName == buildGhcrVersaNodeName(imageIdentifier)
        a == Min(FreeTasks)
    IN  IF targetGhcr /\ typedRepo = <<>>
        THEN \* GHCR org listing
             /\ FreeTasks # {}
             /\ calls' = [calls EXCEPT ![a] = OrgStart(bypass)]
             /\ pending' = [pending EXCEPT ![a] = [NoCont EXCEPT !.kind = "listing",
                                                                 !.bypass = bypass]]
             /\ dueEffects' = DueFrom(due, selected, nonce, selectedTag)
             /\ dialogError' = ""
             /\ UNCHANGED <<imageList, selected, hubSearch>>
        ELSE IF targetGhcr
        THEN \* specific versa-node repo typed
             IF fullName = <<>> \/ fullName = DropTrailingSlashes(GHCR_NAMESPACE)
             THEN /\ imageList' = <<>>
                  /\ selected' = 0
                  /\ hubSearch' = FALSE
                  /\ dueEffects' = DueFrom(due, 0, nonce, selectedTag)
                  /\ UNCHANGED <<calls, pending, dialogError>>
             ELSE /\ FreeTasks # {}
                  /\ imageList' = <<[name |-> fullName,
                                     description |-> CachedDesc(dc, fullName)]>>
                  /\ selected' = 1
                  /\ hubSearch' = FALSE
                  /\ dueEffects' = DueFrom(due, 1, nonce, selectedTag)
                  /\ calls' = [calls EXCEPT ![a] = DescStart(fullName, latest, bypass)]
                  /\ pending' = [pending EXCEPT ![a] = [NoCont EXCEPT !.kind = "typed",
                                                                      !.name = fullName]]
                  /\ UNCHANGED dialogError
        ELSE \* Docker Hub
             IF TextLen(imageIdentifier) < 2 /\ ~forceSearch
             THEN /\ dueEffects' = DueFrom(due, selected, nonce, selectedTag)
                  /\ UNCHANGED <<imageList, selected, hubSearch, calls, pending,
                                 dialogError>>
             ELSE /\ hubSearch' = TRUE
                  /\ dialogError' = ""
                  /\ dueEffects' = DueFrom(due, selected, nonce, selectedTag)
                  /\ UNCHANGED <<imageList, selected, calls, pending>>

\* the user chooses a registry: the handler searches in it at once
onChangeRegistry(reg) ==
    /\ AtRest /\ UserEvent
    /\ UNCHANGED <<tagOptions, reloaded, downloaded, state>>
    /\ reg # selectedRegistry
    /\ selectedRegistry' = reg
    /\ Search(reg, descCache, reloadNonce, FALSE, FALSE, dueEffects \cup {"registry"})
    /\ UNCHANGED <<imageIdentifier, selectedTag, reloadNonce>>
    /\ UNCHANGED <<env, clock, ghcrOrgCache, descCache, tagsCache, tokenCache, enrich,
                   tokenDone>>

\* the user presses Enter in the search field: onKeyDown forces the search
onEnter ==
    /\ AtRest /\ UserEvent
    /\ UNCHANGED <<tagOptions, reloaded, downloaded, state>>
    /\ Search(selectedRegistry, descCache, reloadNonce, TRUE, FALSE, dueEffects)
    /\ UNCHANGED <<imageIdentifier, selectedRegistry, selectedTag, reloadNonce>>
    /\ UNCHANGED <<env, clock, ghcrOrgCache, descCache, tagsCache, tokenCache, enrich,
                   tokenDone>>

\* useEffect(..., []), useEffect(..., [selectedRegistry]) and
\* useEffect(..., [imageIdentifier]): the org listing for GHCR and no query
QueryEffect(e) ==
    /\ e \in {"mount", "registry", "identifier"} /\ Runs(e)
    /\ UNCHANGED <<tagOptions, reloaded, downloaded, state>>
    /\ IF selectedRegistry = "ghcr.io" /\ Trim(imageIdentifier) = <<>>
       THEN Search(selectedRegistry, descCache, reloadNonce, TRUE, FALSE, dueEffects \ {e})
       ELSE /\ dueEffects' = dueEffects \ {e}
            /\ UNCHANGED <<imageList, selected, hubSearch, calls, pending, dialogError>>
    /\ UNCHANGED <<imageIdentifier, selectedRegistry, selectedTag, reloadNonce>>
    /\ UNCHANGED userEvents
    /\ UNCHANGED <<env, clock, ghcrOrgCache, descCache, tagsCache, tokenCache, enrich,
                   tokenDone>>

\* the timeout set by onKeyDown fires
TypingTimeout ==
    /\ Runs("typing")
    /\ UNCHANGED <<tagOptions, reloaded, downloaded, state>>
    /\ Search(selectedRegistry, descCache, reloadNonce, FALSE, FALSE,
              dueEffects \ {"typing"})
    /\ UNCHANGED <<imageIdentifier, selectedRegistry, selectedTag, reloadNonce>>
    /\ UNCHANGED userEvents
    /\ UNCHANGED <<env, clock, ghcrOrgCache, descCache, tagsCache, tokenCache, enrich,
                   tokenDone>>

\* the /images/search request is answered
HubReturns(results) ==
    /\ hubSearch
    /\ UNCHANGED <<tagOptions, reloaded, downloaded, state>>
    /\ hubSearch' = FALSE
    /\ imageList' = results
    /\ selected' = IF results # <<>> THEN 1 ELSE 0
    /\ dueEffects' = Due(selected', reloadNonce, selectedTag)
    /\ UNCHANGED <<imageIdentifier, selectedRegistry, selectedTag, reloadNonce, pending>>
    /\ UNCHANGED <<dialogError, userEvents>>
    /\ UNCHANGED <<env, clock, ghcrOrgCache, descCache, tagsCache, tokenCache, calls,
                   enrich, tokenDone>>

\* setImageList(prev => ...) of the two effects: row idx gets the description
\* if it still carries the name
MergeRow(list, idx, name, desc) ==
    IF idx \in 1..Len(list) /\ list[idx].name = name
    THEN [list EXCEPT ![idx].description = desc]
    ELSE list

\* setImageList([{ name: fullName, description: desc }]) of the typed-repo
\* branch
ReplaceList(list, name, desc) == <<[name |-> name, description |-> desc]>>

\* the description call of the typed-repo branch has settled
ResumeTyped(c) ==
    /\ pending[c].kind = "typed" /\ calls[c].pc = "done"
    /\ UNCHANGED <<tagOptions, reloaded, downloaded, state>>
    /\ pending' = [pending EXCEPT ![c] = NoCont]
    /\ calls' = [calls EXCEPT ![c] = NoCall]
    /\ imageList' = IF ~calls[c].threw /\ calls[c].result # <<>>
                    THEN ReplaceList(imageList, pending[c].name, calls[c].result)
                    ELSE imageList
    /\ UNCHANGED <<imageIdentifier, selectedRegistry, selected, selectedTag, reloadNonce,
                   hubSearch, dueEffects>>
    /\ UNCHANGED <<dialogError, userEvents>>
    /\ UNCHANGED <<env, clock, ghcrOrgCache, descCache, tagsCache, tokenCache, enrich, tokenDone>>

\* the description call of an effect has settled
ResumeRow(c) ==
    /\ pending[c].kind = "row" /\ calls[c].pc = "done"
    /\ UNCHANGED <<tagOptions, reloaded, downloaded, state>>
    /\ pending' = [pending EXCEPT ![c] = NoCont]
    /\ calls' = [calls EXCEPT ![c] = NoCall]
    /\ imageList' = IF ~calls[c].threw /\ calls[c].result # <<>>
                    THEN MergeRow(imageList, pending[c].idx, pending[c].name,
                                  calls[c].result)
                    ELSE imageList
    /\ UNCHANGED <<imageIdentifier, selectedRegistry, selected, selectedTag, reloadNonce,
                   hubSearch, dueEffects>>
    /\ UNCHANGED <<dialogError, userEvents>>
    /\ UNCHANGED <<env, clock, ghcrOrgCache, descCache, tagsCache, tokenCache, enrich, tokenDone>>

\* the tag call of the selection effect has settled
ResumeTags(c) ==
    /\ pending[c].kind = "tags" /\ calls[c].pc = "done"
    /\ tagOptions' = [name |-> calls[c].fullName,
                      tags |-> IF calls[c].threw THEN <<>> ELSE calls[c].result]
    /\ pending' = [pending EXCEPT ![c] = NoCont]
    /\ UNCHANGED <<reloaded, downloaded, state>>
    /\ calls' = [calls EXCEPT ![c] = NoCall]
    /\ selectedTag' = IF ~calls[c].threw /\ calls[c].result # <<>>
                      THEN (IF \E i \in 1..Len(calls[c].result) : calls[c].result[i] = latest
                            THEN latest ELSE calls[c].result[1])
                      ELSE selectedTag
    /\ dueEffects' = Due(selected, reloadNonce, selectedTag')
    /\ UNCHANGED <<imageIdentifier, selectedRegistry, imageList, selected, reloadNonce,
                   hubSearch>>
    /\ UNCHANGED <<dialogError, userEvents>>
    /\ UNCHANGED <<env, clock, ghcrOrgCache, descCache, tagsCache, tokenCache, enrich, tokenDone>>

ListingErrorReported(err, rec) ==
    IF rec.rcs # <<>> /\ rec.rcs[Len(rec.rcs)] = "fail" THEN "Failed to list GHCR packages"
    ELSE err

\* the dialog error once the package listing has settled with record rec: the
\* org-listing branch has a try/finally and no catch
ListingError(err, rec) == err

\* a rejected /images/search request: the error is displayed and the list is
\* replaced by the empty list of results
HubFails ==
    /\ hubSearch
    /\ UNCHANGED <<tagOptions, reloaded, downloaded, state>>
    /\ hubSearch' = FALSE
    /\ dialogError' = "Failed to search for new images"
    /\ imageList' = <<>>
    /\ selected' = 0
    /\ dueEffects' = Due(0, reloadNonce, selectedTag)
    /\ UNCHANGED <<imageIdentifier, selectedRegistry, selectedTag, reloadNonce, pending>>
    /\ UNCHANGED userEvents
    /\ UNCHANGED <<env, clock, ghcrOrgCache, descCache, tagsCache, tokenCache, calls,
                   enrich, tokenDone>>

\* the package listing of the org-listing branch has settled: enrich starts
ResumeListing(c) ==
    /\ pending[c].kind = "listing" /\ calls[c].pc = "done" /\ ~calls[c].threw
    /\ UNCHANGED <<tagOptions, reloaded, downloaded, state>>
    /\ enrich.pc \in {"idle", "done"}
    /\ \A k \in Kids : Free(k)
    /\ \A d \in Tasks : pending[d].kind # "enrich"
    /\ calls' = EnrichCalls(calls, calls[c].result, pending[c].bypass)
    /\ enrich' = EnrichStart(calls[c].result, pending[c].bypass)
    /\ pending' = [pending EXCEPT ![c].kind = "enrich"]
    /\ UNCHANGED <<imageIdentifier, selectedRegistry, imageList, selected, selectedTag,
                   reloadNonce, hubSearch, dueEffects>>
    /\ dialogError' = ListingError(dialogError, calls[c])
    /\ UNCHANGED userEvents
    /\ UNCHANGED <<env, clock, ghcrOrgCache, descCache, tagsCache, tokenCache, tokenDone>>

\* enrich has returned to the org-listing branch: the listing is displayed
ResumeEnriched(c) ==
    /\ pending[c].kind = "enrich" /\ enrich.pc = "done" /\ ~enrich.threw
    /\ UNCHANGED <<tagOptions, reloaded, downloaded, state>>
    /\ pending' = [pending EXCEPT ![c] = NoCont]
    /\ calls' = [d \in CallIds |-> IF d = c \/ d \in Kids THEN NoCall ELSE calls[d]]
    /\ enrich' = NoEnrich
    /\ imageList' = enrich.out
    /\ selected' = IF enrich.out # <<>> THEN 1 ELSE 0
    /\ hubSearch' = FALSE
    /\ dueEffects' = Due(selected', reloadNonce, selectedTag)
    /\ UNCHANGED <<imageIdentifier, selectedRegistry, selectedTag, reloadNonce>>
    /\ UNCHANGED <<dialogError, userEvents>>
    /\ UNCHANGED <<env, clock, ghcrOrgCache, descCache, tagsCache, tokenCache, tokenDone>>

\* s starts with p
StartsWith(s, p) == Len(s) >= Len(p) /\ SubSeq(s, 1, Len(p)) = p

\* `${fullName}@${tag}`
KeyText(k) == k[1] \o <<"@">> \o k[2]

\* imageList.map(x => x?.name).filter(Boolean)
DisplayedNames(list) == { list[i].name : i \in 1..Len(list) } \ {<<>>}

\* the table t without the keys in gone
Without(t, gone) == [k \in DOMAIN t \ gone |-> t[k]]

\* Array.from(descCache.keys()).forEach(k => { if (names.some(n =>
\* k.startsWith(n + "@"))) descCache.delete(k) })
ReloadDescs(dc, names) ==
    Without(dc, { k \in DOMAIN dc :
                    \E n \in names : StartsWith(KeyText(k), n \o <<"@">>) })

\* names.forEach(n => { const repo = parseGhcrRepoName(n); if (repo) t.delete(repo) })
ReloadRepos(t, names) ==
    Without(t, { parseGhcrRepoName(n) : n \in names } \ {<<>>})

\* the user presses the reload button
onReload ==
    /\ AtRest /\ UserEvent
    /\ UNCHANGED tagOptions
    /\ reloaded' = DisplayedNames(imageList)
    /\ UNCHANGED <<downloaded, state>>
    /\ reloadNonce < MaxReloads
    /\ tokenCache' = ReloadRepos(tokenCache, DisplayedNames(imageList))
    /\ tagsCache' = ReloadRepos(tagsCache, DisplayedNames(imageList))
    /\ descCache' = ReloadDescs(descCache, DisplayedNames(imageList))
    /\ reloadNonce' = reloadNonce + 1
    /\ Search(selectedRegistry, descCache', reloadNonce', TRUE, TRUE, dueEffects)
    /\ UNCHANGED <<imageIdentifier, selectedRegistry, selectedTag>>
    /\ UNCHANGED <<env, clock, ghcrOrgCache, enrich, tokenDone>>

\* the component on a host and a registry that answer every request
InitUiSpec == env = GoodEnv /\ InitState

NextUi ==
    \/ \E term \in Terms : onChangeIdentifier(term)
    \/ \E reg \in {"ghcr.io", "docker.io"} : onChangeRegistry(reg)
    \/ \E i \in 1..MaxList : onSelect(i)
    \/ \E tag \in PickableTags : onTagSelect(tag)
    \/ onEnter
    \/ \E e \in {"mount", "registry", "identifier"} : QueryEffect(e)
    \/ TypingTimeout
    \/ \E results \in HubResults : HubReturns(results)
    \/ SelectionEffect
    \/ TagEffect
    \/ \E c \in Tasks : ResumeTyped(c)
    \/ \E c \in Tasks : ResumeRow(c)
    \/ \E c \in Tasks : ResumeTags(c)
    \/ \E c \in Tasks : ResumeListing(c)
    \/ \E c \in Tasks : ResumeEnriched(c)
    \/ onReload
    \/ \E c \in Kids \cup Tasks : TokenReturns(c)
    \/ \E c \in Tasks : TagsReturns(c)
    \/ \E c \in Kids \cup Tasks : DescReturns(c)
    \/ \E c \in Tasks : OrgReturns(c)
    \/ EnrichReturns

SpecUi == InitUiSpec /\ [][NextUi]_vars

(***************************************************************************)
(* Properties of the description chain (SpecChain).                        *)
(***************************************************************************)
\* call c is a description call that ran its command and returned
RanDesc(c) ==
    /\ calls[c].op = "desc" /\ calls[c].pc = "done"
    /\ calls[c].cmds # <<>>

\* the manifest endpoint answers with an index (the chain takes the index
\* branch for every document whose media type is not a manifest's)
TopIsIndex == env.top.k = "json" /\ ~IsManifestMediaType(env.top.mediaType)

\* positions of the index entries of a platform
PositionsOf(mans, os, arch) ==
    { i \in 1..Len(mans) :
        mans[i].platform.os = os /\ mans[i].platform.architecture = arch }

\* the digests call c asked the manifest endpoint for after the tag
SubRefs(c) ==
    { calls[c].reqs[i].ref : i \in { j \in 1..Len(calls[c].reqs) :
                                        calls[c].reqs[j].req = "submanifest" } }

\* the label the chain finds when it follows index entry p
LabelVia(p) ==
    LET s == env.sub[env.top.manifests[p].digest]
    IN  IF s.k = "json" /\ s.config # NoDigest /\ env.cfg[s.config].k = "json"
           /\ env.cfg[s.config].hasLabel
        THEN Trim(env.cfg[s.config].label)
        ELSE <<>>

\* the entry the index selection lands on: the first linux/arm64 entry,
\* else the first entry
LandsOn(mans) ==
    IF PositionsOf(mans, "linux", "arm64") # {}
    THEN Min(PositionsOf(mans, "linux", "arm64"))
    ELSE 1

C3_FallbackFirst ==
    \A c \in Callers :
        (RanDesc(c) /\ TopIsIndex
         /\ env.top.manifests # <<>>
         /\ PositionsOf(env.top.manifests, "linux", "arm64") = {})
        => SubRefs(c) = {env.top.manifests[1].digest}

C3_Witness ==
    /\ RanDesc(1) /\ TopIsIndex
    /\ env.top.manifests = EntriesOf(<<[os |-> "linux", architecture |-> "arm"],
                                       [os |-> "windows", architecture |-> "arm64"]>>)
    /\ SubRefs(1) = {ManifestDigest(1)}

(***************************************************************************)
(* Properties of the tag lister (SpecTags).                                *)
(***************************************************************************)
\* call c is a tag call that returned the registry's tag collection
ListedTags(c) ==
    /\ calls[c].op = "tags" /\ calls[c].pc = "done"
    /\ env.tags.k = "json" /\ env.tags.hasTags

Elems(s) == { s[i] : i \in 1..Len(s) }

IsNumber(t) == t # <<>> /\ \A i \in 1..Len(t) : t[i] \in Digits

\* C8: for every tag collection that contains "latest", the list returned
\* has "latest" as its first element.
C8_LatestFirst ==
    \A c \in Callers :
        (ListedTags(c) /\ latest \in Elems(env.tags.tags))
        => calls[c].result # <<>> /\ calls[c].result[1] = latest

C8_Witness ==
    /\ ListedTags(1)
    /\ env.tags.tags = << <<"v", "2">>, <<"2">>, latest >>
    /\ calls[1].result = << latest, <<"v", "2">>, <<"2">> >>

\* C9: the list returned holds every distinct tag of the response exactly
\* once; the tags other than "latest" stand in descending numeric-aware
\* order, a larger number before a smaller one; {"2","10","latest"} gives
\* ["latest","10","2"].
C9_DistinctDescending ==
    \A c \in Callers :
        ListedTags(c)
        => LET r == calls[c].result
           IN  /\ Elems(r) = Elems(env.tags.tags)
               /\ \A i, j \in 1..Len(r) : i # j => r[i] # r[j]
               /\ \A i, j \in 1..Len(r) :
                    (i < j /\ r[i] # latest /\ r[j] # latest)
                    => /\ localeCompare(r[i], r[j]) >= 0
                       /\ (IsNumber(r[i]) /\ IsNumber(r[j]))
                            => DigitRunVal(r[i], 0) > DigitRunVal(r[j], 0)
               /\ Elems(env.tags.tags) = {<<"2">>, <<"1", "0">>, latest}
                    => r = << latest, <<"1", "0">>, <<"2">> >>

C9_Witness ==
    /\ ListedTags(1)
    /\ env.tags.tags = << <<"2">>, <<"1", "0">>, <<"2">> >>
    /\ calls[1].result = << <<"1", "0">>, <<"2">> >>

(***************************************************************************)
(* Properties of the token broker (SpecToken).                             *)
(***************************************************************************)
TokenCall(c) == calls[c].op = "token"

\* call c is a token call whose command ran to its end
RanToken(c) ==
    /\ TokenCall(c) /\ calls[c].pc = "done"
    /\ calls[c].rcs = <<"ok">>

\* an answer that carries a token worth returning
YieldsToken(r) == r.k = "json" /\ r.hasToken /\ Trim(r.token) # <<>>

\* the identities call c exchanged the PAT with, in the order of the requests
IdsTried(c) ==
    LET rq == calls[c].reqs
    IN  [i \in 1..(Len(rq) - 1) |-> rq[i + 1].id]

\* C4: a non-bypass token call that starts after a token call for the same
\* repository has completed issues no command and returns the cached token;
\* the call before it issued exactly one; a call with bypassCache = true
\* issues a command whether or not an entry is cached.
C4_OneCommand ==
    \A c \in Callers :
        TokenCall(c)
        => /\ (~calls[c].bypass /\ calls[c].warm)
                => /\ calls[c].cmds = <<>> /\ calls[c].pc = "done"
                   /\ calls[c].repo \in DOMAIN tokenCache
                   /\ calls[c].result = tokenCache[calls[c].repo]
           /\ (~calls[c].bypass /\ ~calls[c].warm) => calls[c].cmds = <<"token">>
           /\ calls[c].bypass => calls[c].cmds = <<"token">>

C4_Witness ==
    /\ TokenCall(1) /\ calls[1].pc = "done" /\ ~calls[1].bypass /\ calls[1].warm
    /\ calls[1].cmds = <<>> /\ calls[1].result = TokenOf("anon")
    /\ TokenCall(2) /\ calls[2].pc = "done" /\ calls[2].bypass /\ calls[2].warm
    /\ calls[2].repo = calls[1].repo /\ calls[2].cmds = <<"token">>

\* C5: the first request of a token command is the anonymous one; identity
\* exchanges follow only when it failed and a PAT is stored; they go to the
\* configured user, if there is one, then to "oauth2", "token", "" in this
\* order; every request but the last one failed, and the command stops
\* with a failed request only when nothing is left to try.
C5_StrategyOrder ==
    \A c \in Callers :
        RanToken(c)
        => LET rq == calls[c].reqs
               order == (IF env.user THEN <<"user">> ELSE <<>>) \o <<"oauth2", "token", "">>
               tried == IdsTried(c)
           IN  /\ rq # <<>> /\ rq[1].id = "anon"
               /\ Len(tried) <= Len(order)
               /\ \A i \in 1..Len(tried) : tried[i] = order[i]
               /\ tried # <<>> => env.tokenFile = "pat" /\ ~CurlGood(env.anon)
               /\ \A i \in 1..(Len(rq) - 1) : rq[i].k \in {"fail", "empty"}
               /\ rq[Len(rq)].k \in {"fail", "empty"}
                    => env.tokenFile # "pat" \/ Len(tried) = Len(order)

C5_Witness ==
    /\ RanToken(1)
    /\ IdsTried(1) = <<"user", "oauth2", "token">>
    /\ calls[1].result = TokenOf("token")

\* C6 as claimed: a token command returns the empty token only after every
\* applicable strategy was tried: when the anonymous request yields no
\* non-empty token and a PAT is stored, the identity exchange is attempted.
C6_AsClaimed ==
    \A c \in Callers :
        (RanToken(c) /\ ~YieldsToken(env.anon) /\ env.tokenFile = "pat")
        => IdsTried(c) # <<>>

\* C7: when the anonymous request fails and there is no PAT file, the token
\* call returns the empty token, sends no identity exchange, and does not
\* throw.
C7_NoCredential ==
    \A c \in Callers :
        (RanToken(c) /\ ~CurlGood(env.anon) /\ env.tokenFile = "absent")
        => /\ calls[c].result = <<>>
           /\ IdsTried(c) = <<>>
           /\ ~calls[c].threw

C7_Witness ==
    /\ RanToken(1) /\ env.anon = RespFail /\ env.tokenFile = "absent"
    /\ \A id \in Identities : YieldsToken(env.basic[id])
    /\ calls[1].result = <<>> /\ Len(calls[1].reqs) = 1

(***************************************************************************)
(* Properties of the resolver as a whole (Spec).                           *)
(***************************************************************************)
\* the last command of call c was rejected by the runner, or the last
\* request it made was answered with nothing, or with something that is no
\* JSON document
CommandFailed(c) ==
    /\ calls[c].cmds # <<>>
    /\ \/ calls[c].rcs[Len(calls[c].rcs)] = "fail"
       \/ /\ calls[c].reqs # <<>>
          /\ calls[c].reqs[Len(calls[c].reqs)].k \in {"fail", "empty", "text", "null"}

\* C10: no call of listOrgPackages, acquireToken, listTags or the description
\* chain throws, and a call whose command was rejected, or answered with
\* empty or malformed output, returns its empty value; enrich never throws
\* and leaves every row whose description call found nothing as it was.
C10_NothingFound ==
    /\ \A c \in CallIds :
         calls[c].pc = "done"
         => /\ ~calls[c].threw
            /\ CommandFailed(c) => calls[c].result = <<>>
    /\ enrich.pc = "done"
         => /\ ~enrich.threw
            /\ Len(enrich.out) = Len(enrich.list)
            /\ \A i \in 1..Len(enrich.list) :
                 (i \notin EnrichIdxs(enrich.list) \/ CommandFailed(Kid(i)))
                 => enrich.out[i] = enrich.list[i]

C10_Witness ==
    /\ env = RejectEnv
    /\ calls[1].op = "desc" /\ calls[1].pc = "done"
    /\ calls[1].rcs = <<"fail", "fail">> /\ calls[1].result = <<>>
    /\ enrich.pc = "done" /\ EnrichIdxs(enrich.list) = {1, 2}
    /\ CommandFailed(Kid(1)) /\ CommandFailed(Kid(2))
    /\ enrich.out = enrich.list

(***************************************************************************)
(* Late results and the displayed list                                     *)
(***************************************************************************)

\* the continuation of a description call of the component runs in this step
DescResumes(c) == pending[c].kind \in {"typed", "row"} /\ pending'[c] = NoCont

\* the displayed list keeps its entries; only descriptions of entries called
\* name may differ
OnlyDescriptionsOf(name) ==
    /\ Len(imageList') = Len(imageList)
    /\ \A i \in 1..Len(imageList) :
          /\ imageList'[i].name = imageList[i].name
          /\ imageList'[i].description # imageList[i].description
               => imageList[i].name = name

\* C11: a description resolution of the component that completes, also after
\* a later search has replaced the displayed list, changes at most the
\* description of the entries whose name is the resolved repository, and
\* adds, removes or replaces no entry.
C11_AsClaimed ==
    [][\A c \in Tasks : DescResumes(c) => OnlyDescriptionsOf(pending[c].name)]_vars

(***************************************************************************)
(* Reload                                                                  *)
(***************************************************************************)

\* the reload button is handled in this step
Reloads == reloadNonce' # reloadNonce

\* the GHCR repositories of the rows displayed
DisplayedRepos ==
    { parseGhcrRepoName(imageList[i].name) :
        i \in { j \in 1..Len(imageList) : IsVersaNodeGhcr(imageList[j].name) } }

\* table t has the same entry, or the same lack of one, under key k after
\* the step
SameEntry(t, tNext, k) ==
    /\ k \in DOMAIN t <=> k \in DOMAIN tNext
    /\ k \in DOMAIN t => tNext[k] = t[k]

\* C12: reload changes no cache entry other than the token, tag-list and
\* description entries of the repositories displayed: the entries of every
\* other repository and the org-listing entry are the same after it.
C12_AsClaimed ==
    [][Reloads =>
        /\ ghcrOrgCache' = ghcrOrgCache
        /\ \A r \in (DOMAIN tokenCache \cup DOMAIN tagsCache) \ DisplayedRepos :
              SameEntry(tokenCache, tokenCache', r) /\ SameEntry(tagsCache, tagsCache', r)
        /\ \A k \in DOMAIN descCache :
              parseGhcrRepoName(k[1]) \notin DisplayedRepos
              => SameEntry(descCache, descCache', k)]_vars

\* C13: after the invalidation of reload no token, tag-list or description
\* entry, for any tag and any form of the name, remains for a repository
\* that is displayed.
C13_AsClaimed ==
    [][Reloads =>
        \A r \in DisplayedRepos :
            /\ r \notin DOMAIN tokenCache'
            /\ r \notin DOMAIN tagsCache'
            /\ \A k \in DOMAIN descCache' : parseGhcrRepoName(k[1]) # r]_vars

(***************************************************************************)
(* enrichListWithDescriptions on its own: lists of up to MaxList rows,     *)
(* with and without descriptions, while the command runner comes and goes  *)
(***************************************************************************)
EnrichRows ==
    { [name |-> Acme, description |-> <<>>],
      [name |-> Beta, description |-> <<"b">>],
      [name |-> <<"nginx">>, description |-> <<"n">>] }

EnrichLists == UNION { [1..n -> EnrichRows] : n \in 0..MaxList }

\* the command runner starts or stops accepting commands, also while
\* commands are awaited
EnvFlip ==
    /\ env' \in {GoodEnv, RejectEnv} \ {env}
    /\ UNCHANGED <<ui, clock, ghcrOrgCache, descCache, tagsCache, tokenCache, calls,
                   enrich, tokenDone>>

InitEnrich == env = GoodEnv /\ InitState

NextEnrich ==
    \/ \E list \in EnrichLists, b \in BOOLEAN : enrichListWithDescriptions(list, b)
    \/ \E c \in Kids : TokenReturns(c)
    \/ \E c \in Kids : DescReturns(c)
    \/ EnrichReturns
    \/ EnvFlip

SpecEnrich == InitEnrich /\ [][NextEnrich]_vars

\* the rows of the list of the running or finished enrich that name a
\* ghcr.io/versa-node image
GhcrRows == { i \in 1..Len(enrich.list) : IsVersaNodeGhcr(enrich.list[i].name) }

\* what the description call of row i resolved to: empty when it failed
Resolved(i) ==
    IF calls[Kid(i)].threw THEN <<>> ELSE calls[Kid(i)].result

C15_SilentPerEntry ==
    enrich.pc = "done"
    => /\ ~enrich.threw
       /\ Len(enrich.out) = Len(enrich.list)
       /\ \A i \in 1..Len(enrich.list) :
            /\ enrich.out[i].name = enrich.list[i].name
            /\ i \notin GhcrRows => enrich.out[i] = enrich.list[i]
            /\ i \in GhcrRows
               => /\ calls[Kid(i)].pc = "done"
                  /\ Resolved(i) = <<>> => enrich.out[i] = enrich.list[i]
                  /\ Resolved(i) # <<>> => enrich.out[i].description = Resolved(i)

C15_Witness ==
    /\ enrich.pc = "done"
    /\ enrich.list = <<[name |-> Beta, description |-> <<"b">>],
                       [name |-> Acme, description |-> <<>>]>>
    /\ CommandFailed(Kid(1)) /\ enrich.out[1].description = <<"b">>
    /\ Resolved(2) = <<"D", "2">> /\ enrich.out[2].description = <<"D", "2">>

EnrichStarts == enrich.pc # "wait" /\ enrich'.pc = "wait"

\* Promise.all resumes in this step
EnrichResumes == enrich.pc = "wait" /\ enrich'.pc = "done"

\* the description cached for the row, or the row's own when none or an
\* empty one is cached
ByCache(row) ==
    IF <<row.name, latest>> \in DOMAIN descCache /\ descCache[<<row.name, latest>>] # <<>>
    THEN descCache[<<row.name, latest>>]
    ELSE row.description

\* C17: a run of enrich without bypass for which every description needed is
\* cached issues no command, leaves the cache as it is and returns the rows
\* with the cached descriptions, so running it again returns the same.
C17_CachedRun ==
    /\ [][EnrichStarts /\ ~enrich'.bypass
          /\ (\A i \in 1..Len(enrich'.list) :
                IsVersaNodeGhcr(enrich'.list[i].name)
                => <<enrich'.list[i].name, latest>> \in DOMAIN descCache)
          => \A i \in 1..Len(enrich'.list) :
                IsVersaNodeGhcr(enrich'.list[i].name)
                => /\ calls'[Kid(i)].pc = "done" /\ calls'[Kid(i)].cmds = <<>>
                   /\ calls'[Kid(i)].result = descCache[<<enrich'.list[i].name, latest>>]]_vars
    /\ [][EnrichResumes /\ ~enrich.bypass
          /\ (\A i \in GhcrRows : calls[Kid(i)].cmds = <<>>)
          => /\ descCache' = descCache
             /\ enrich'.out = [i \in 1..Len(enrich.list) |->
                                 IF i \in GhcrRows
                                 THEN [enrich.list[i] EXCEPT !.description =
                                                               ByCache(enrich.list[i])]
                                 ELSE enrich.list[i]]]_vars

C17_Witness ==
    /\ enrich.pc = "done" /\ ~enrich.bypass /\ GhcrRows = {1, 2}
    /\ \A i \in GhcrRows : calls[Kid(i)].pc = "done" /\ calls[Kid(i)].cmds = <<>>
    /\ enrich.list[1].description = <<>> /\ enrich.out[1].description = <<"D", "2">>

(***************************************************************************)
(* Two callers at once, as the selection effect starts the tag call and    *)
(* the description call of a row together                                  *)
(***************************************************************************)
InitRace == env = GoodEnv /\ InitState

NextRace ==
    \/ \E c \in Callers, b \in BOOLEAN : ghcrGetRegistryTokenViaSpawn(c, <<"acme">>, b)
    \/ \E b \in BOOLEAN : fetchGhcrTagsViaSpawn(1, Acme, b)
    \/ \E b \in BOOLEAN : fetchGhcrOciDescriptionViaSpawn(2, Acme, latest, b)
    \/ \E c \in Callers : TokenReturns(c)
    \/ TagsReturns(1)
    \/ DescReturns(2)
    \/ EnvFlip

SpecRace == InitRace /\ [][NextRace]_vars

\* the token command of call c, issued for repository acme before any
\* token command for it had completed, has completed
Acquired(c) ==
    /\ calls[c].repo = <<"acme">> /\ ~calls[c].warm
    /\ calls[c].cmds # <<>> /\ calls[c].cmds[1] = "token"
    /\ calls[c].pc # "token"

\* C18: when the overlapping token acquisitions for a repository have all
\* completed and one of them obtained a non-empty token, the token cached
\* for the repository is non-empty.
C18_AsClaimed ==
    /\ \A c \in Callers : Acquired(c)
    /\ \E c \in Callers : calls[c].token # <<>>
    => <<"acme">> \in DOMAIN tokenCache /\ tokenCache[<<"acme">>] # <<>>

(***************************************************************************)
(* What a completed call leaves in the caches (Spec).                      *)
(***************************************************************************)

\* the command of call c, a call of kind op, completes in this step
Completes(c, op) ==
    calls[c].op = op /\ calls[c].pc = "spawn" /\ calls'[c].pc = "done"

\* call c is started in this step as a call of kind op that does not bypass
\* the caches
StartsCached(c, op) ==
    /\ Free(c) /\ calls'[c] # calls[c]
    /\ calls'[c].op = op /\ ~calls'[c].bypass

\* the command of the completed call c was rejected or exited non-zero, or
\* its output was not a JSON object
Caught(rec) ==
    \/ rec.rcs[Len(rec.rcs)] = "fail"
    \/ rec.reqs # <<>> /\ rec.reqs[Len(rec.reqs)].k \in {"text", "null"}

DescKey(rec) == <<rec.fullName, rec.tag>>

MaxTicks == 3

\* five minutes pass
Tick ==
    /\ clock < MIN + MaxTicks * 5 * MIN
    /\ clock' = clock + 5 * MIN
    /\ UNCHANGED <<ui, env, ghcrOrgCache, descCache, tagsCache, tokenCache, calls, enrich,
                   tokenDone>>

InitOrg == env = GoodEnv /\ InitState

NextOrg ==
    \/ \E c \in Callers, b \in BOOLEAN : fetchGhcrOrgPackagesViaSpawn(c, b)
    \/ \E c \in Callers : OrgReturns(c)
    \/ Tick
    \/ EnvFlip

SpecOrg == InitOrg /\ [][NextOrg]_vars

\* fetchGhcrOrgPackagesViaSpawn is called in slot c in this step
OrgStarts(c) == Free(c) /\ calls'[c] # calls[c] /\ calls'[c].op = "org"

\* C20: listOrgPackages returns the stored listing without a command if and
\* only if bypass is off, a listing is stored, and less than ten minutes have
\* passed since it was fetched; in every other case it issues the listing
\* command.
C20_FreshOrFetch ==
    [][\A c \in Callers :
          OrgStarts(c)
          => LET served == calls'[c].pc = "done" /\ calls'[c].cmds = <<>>
                 issued == calls'[c].pc = "spawn" /\ calls'[c].cmds = <<"org">>
             IN  /\ served <=> /\ ~calls'[c].bypass
                               /\ ~ghcrOrgCache.null
                               /\ clock - ghcrOrgCache.at < 10 * MIN
                 /\ served \/ issued
                 /\ served => calls'[c].result = ghcrOrgCache.list]_vars

C20_Witness ==
    /\ calls[1].op = "org" /\ calls[1].pc = "done" /\ ~calls[1].bypass
    /\ calls[1].cmds = <<>> /\ calls[1].result = ghcrOrgCache.list
    /\ ~ghcrOrgCache.null /\ ghcrOrgCache.list # <<>>
    /\ clock - ghcrOrgCache.at = 5 * MIN
    /\ calls[2].op = "org" /\ calls[2].pc = "spawn" /\ ~calls[2].bypass

(***************************************************************************)
(* The empty token (SpecToken).                                            *)
(***************************************************************************)

\* the token command of call c was rejected, or its last request, after
\* which nothing was left to try, failed
AllStrategiesFailed(c) ==
    /\ calls[c].cmds # <<>> /\ calls[c].cmds[1] = "token" /\ calls[c].pc # "token"
    /\ \/ calls[c].rcs[1] = "fail"
       \/ /\ calls[c].reqs # <<>>
          /\ \A i \in 1..Len(calls[c].reqs) :
               calls[c].reqs[i].req = "token" => calls[c].reqs[i].k \in {"fail", "empty"}

\* a token call is started in slot c in this step without bypass
TokenStartsCached(c) ==
    /\ Free(c) /\ calls'[c] # calls[c]
    /\ calls'[c].op = "token" /\ ~calls'[c].bypass

\* C21: a token call all of whose strategies failed returns the empty token,
\* does not throw, and leaves it in the token cache; a later call without
\* bypass for a repository whose cached token is empty returns the empty
\* token and issues no command.
C21_EmptyTokenCached ==
    /\ [](\A c \in Callers :
            TokenCall(c) /\ AllStrategiesFailed(c)
            => /\ calls[c].pc = "done" /\ ~calls[c].threw /\ calls[c].result = <<>>
               /\ calls[c].repo \in DOMAIN tokenCache
               /\ tokenCache[calls[c].repo] = <<>>)
    /\ [][\A c \in Callers :
            (/\ TokenStartsCached(c)
             /\ calls'[c].repo \in DOMAIN tokenCache
             /\ tokenCache[calls'[c].repo] = <<>>)
            => /\ calls'[c].pc = "done" /\ calls'[c].cmds = <<>>
               /\ calls'[c].result = <<>>]_vars

C21_Witness ==
    /\ TokenCall(1) /\ AllStrategiesFailed(1) /\ Len(calls[1].reqs) = 5
    /\ calls[1].result = <<>> /\ tokenCache[calls[1].repo] = <<>>
    /\ TokenCall(2) /\ calls[2].repo = calls[1].repo /\ ~calls[2].bypass
    /\ calls[2].pc = "done" /\ calls[2].cmds = <<>> /\ calls[2].result = <<>>

(***************************************************************************)
(* Requests without a token (Spec).                                        *)
(***************************************************************************)

\* the requests call c made to the registry itself, in order
DataReqs(c) == SelectSeq(calls[c].reqs, LAMBDA r : r.req # "token")

\* call c, a tag or description call, has returned without issuing its own
\* command
ReturnedEarly(c) ==
    /\ calls[c].op \in {"tags", "desc"} /\ calls[c].pc = "done"
    /\ calls[c].op \notin Elems(calls[c].cmds)

\* C22: with an empty token the tag call and the description call still
\* issue their command, whose tag-list, manifest and blob requests carry no
\* Authorization header: a call returns without its command only for an
\* empty repository name or from its cache, and a request carries the header
\* exactly when the token is non-empty.
C22_EmptyTokenStillAsks ==
    \A c \in CallIds :
      /\ ReturnedEarly(c)
         => \/ calls[c].repo = <<>>
            \/ /\ ~calls[c].bypass
               /\ IF calls[c].op = "tags" THEN calls[c].repo \in DOMAIN tagsCache
                  ELSE <<calls[c].fullName, calls[c].tag>> \in DOMAIN descCache
      /\ calls[c].op \in {"tags", "desc"}
         => \A i \in 1..Len(DataReqs(c)) :
              DataReqs(c)[i].auth = (calls[c].token # <<>>)

C22_Witness ==
    /\ calls[1].op = "desc" /\ calls[1].pc = "done" /\ calls[1].token = <<>>
    /\ calls[1].cmds = <<"desc">>
    /\ [i \in 1..Len(DataReqs(1)) |-> DataReqs(1)[i].req]
         = <<"manifest", "submanifest", "blob">>
    /\ \A i \in 1..3 : ~DataReqs(1)[i].auth /\ DataReqs(1)[i].k = "json"
    /\ calls[1].result = <<"D", "2">>

(***************************************************************************)
(* The description chain stops early (SpecChain).                          *)
(***************************************************************************)

\* the requests of kind what made by call c
ReqsOf(c, what) == SelectSeq(calls[c].reqs, LAMBDA r : r.req = what)

\* the top-level document is an index without entries
EmptyIndex == TopIsIndex /\ env.top.manifests = <<>>

\* a manifest request of call c was answered with something that is not a
\* JSON document
MalformedManifest(c) ==
    \E i \in 1..Len(calls[c].reqs) :
      /\ calls[c].reqs[i].req \in {"manifest", "submanifest"}
      /\ calls[c].reqs[i].k # "json"

\* C23: when the top-level document is an index with no entries, or a
\* manifest response is malformed or not JSON, the description chain returns
\* the empty string and issues no config-blob request.
C23_StopsBeforeBlob ==
    RanDesc(1) /\ (EmptyIndex \/ MalformedManifest(1))
    => /\ calls[1].result = <<>> /\ ~calls[1].threw
       /\ ReqsOf(1, "blob") = <<>>

C23_Witness ==
    /\ RanDesc(1) /\ TopIsIndex /\ env.top.manifests # <<>>
    /\ Len(ReqsOf(1, "submanifest")) = 1
    /\ ReqsOf(1, "submanifest")[1].k = "text"
    /\ calls[1].result = <<>> /\ ReqsOf(1, "blob") = <<>>

C23_WitnessEmptyIndex ==
    /\ RanDesc(1) /\ EmptyIndex /\ env.top.mediaType = MT_OCI_INDEX
    /\ Len(DataReqs(1)) = 1
    /\ calls[1].result = <<>>

(***************************************************************************)
(* The two branches of the description chain (SpecChain).                  *)
(***************************************************************************)

\* the references of the requests of kind what made by call c, in order
RefsOf(c, what) == [i \in 1..Len(ReqsOf(c, what)) |-> ReqsOf(c, what)[i].ref]

\* the blob requests that follow from a manifest document
BlobRefsFor(doc) ==
    IF doc.k = "json" /\ doc.config # NoDigest THEN <<doc.config>> ELSE <<>>

\* C24: the declared media type decides the branch.  For a document declared
\* a single-platform manifest there is no second manifest request and the
\* blob asked for is the one its own config descriptor names.  Every other
\* document is read as an index: with entries, exactly one further manifest
\* request is made, for the digest of the selected entry (the first
\* linux/arm64 entry, else the first entry), and the blob asked for is the one
\* that manifest names; without entries nothing further is asked.
C24_BranchByMediaType ==
    RanDesc(1) /\ env.top.k = "json"
    => /\ Len(ReqsOf(1, "manifest")) = 1
       /\ IF IsManifestMediaType(env.top.mediaType)
          THEN /\ RefsOf(1, "submanifest") = <<>>
               /\ RefsOf(1, "blob") = BlobRefsFor(env.top)
          ELSE IF env.top.manifests = <<>>
          THEN RefsOf(1, "submanifest") = <<>> /\ RefsOf(1, "blob") = <<>>
          ELSE LET sel == env.top.manifests[LandsOn(env.top.manifests)].digest
               IN  /\ RefsOf(1, "submanifest") = <<sel>>
                   /\ RefsOf(1, "blob") = BlobRefsFor(env.sub[sel])

C24_Witness ==
    /\ RanDesc(1) /\ env.top.k = "json" /\ env.top.mediaType = MT_DOCKER_LIST
    /\ Len(env.top.manifests) = 2
    /\ RefsOf(1, "submanifest") = <<ManifestDigest(2)>>
    /\ RefsOf(1, "blob") = <<ConfigDigest(2)>>
    /\ calls[1].result = <<"D", "2">>

C24_WitnessManifest ==
    /\ RanDesc(1) /\ env.top.k = "json" /\ env.top.mediaType = MT_DOCKER_V2
    /\ RefsOf(1, "submanifest") = <<>>
    /\ RefsOf(1, "blob") = <<ConfigDigest(0)>>
    /\ calls[1].result = <<"D", "0">>

(***************************************************************************)
(* The description label (SpecChain).                                      *)
(***************************************************************************)

\* res is text with the blanks around it removed
Stripped(text, res) ==
    /\ res = <<>> \/ (res[1] # " " /\ res[Len(res)] # " ")
    /\ \E a \in 0..Len(text), b \in 0..Len(text) :
         /\ a <= b /\ SubSeq(text, a + 1, b) = res
         /\ \A i \in (1..a) \cup ((b + 1)..Len(text)) : text[i] = " "

\* C25: once the config blob has been asked for, the description returned is
\* the label org.opencontainers.image.description of that blob without the
\* whitespace around it, and the empty string when the blob could not be
\* fetched, is not a JSON object, or has no such label; nothing is thrown.
C25_LabelOrEmpty ==
    RanDesc(1) /\ ReqsOf(1, "blob") # <<>>
    => LET blob == env.cfg[ReqsOf(1, "blob")[1].ref]
       IN  /\ ~calls[1].threw
           /\ IF blob.k = "json" /\ blob.hasLabel
              THEN Stripped(blob.label, calls[1].result)
              ELSE calls[1].result = <<>>

C25_Witness ==
    /\ RanDesc(1) /\ ReqsOf(1, "blob") # <<>>
    /\ env.cfg[ReqsOf(1, "blob")[1].ref] = ConfigDoc(<<" ", "D", "1", " ">>)
    /\ calls[1].result = <<"D", "1">>

C25_WitnessUnparsable ==
    /\ RanDesc(1) /\ ReqsOf(1, "blob") # <<>>
    /\ ReqsOf(1, "blob")[1].k = "text"
    /\ calls[1].result = <<>> /\ ~calls[1].threw

(***************************************************************************)
(* The package listing fails (SpecListing).                                *)
(***************************************************************************)

\* the hosts and the packages API of the listing specification: the token
\* file is missing, empty or holds a PAT, the command runner accepts the
\* command or not, and the API answers in every way; a request without
\* credential is refused (the listing needs authentication)
OrgEnvs ==
    { e \in { [GoodEnv EXCEPT !.tokenFile = f, !.org = r, !.spawnOk = s] :
                f \in {"absent", "empty", "pat"},
                r \in BadResps \cup {GoodEnv.org, OrgDoc(<<>>)},
                s \in BOOLEAN } :
        e.tokenFile # "pat" => e.org = RespFail }

InitListing == env \in OrgEnvs /\ InitState

NextListing ==
    \/ \E c \in Callers, b \in BOOLEAN : fetchGhcrOrgPackagesViaSpawn(c, b)
    \/ \E c \in Callers : OrgReturns(c)
    \/ Tick

SpecListing == InitListing /\ [][NextListing]_vars

\* the listing command of call c has completed
RanOrg(c) == calls[c].op = "org" /\ calls[c].pc = "done" /\ calls[c].cmds = <<"org">>

\* the command was rejected, or its request failed at the network level or
\* was answered with an error status (curl -f fails for both)
OrgRequestFailed(c) ==
    calls[c].rcs = <<"fail">> \/ calls[c].reqs[1].k = "fail"

\* the request went out without a credential
OrgNoCredential(c) == calls[c].reqs # <<>> /\ ~calls[c].reqs[1].auth

C26_WitnessPat ==
    /\ RanOrg(1) /\ env.tokenFile = "pat" /\ env.spawnOk
    /\ calls[1].reqs = <<[req |-> "org", ref |-> <<>>, auth |-> TRUE, k |-> "fail"]>>
    /\ calls[1].result = <<>> /\ ~calls[1].threw

(***************************************************************************)
(* The order of the steps of one resolution (SpecChain).                   *)
(***************************************************************************)

\* the place of a request in the chain
StepRank(what) ==
    CASE what = "token" -> 0
      [] what = "manifest" -> 1
      [] what = "submanifest" -> 2
      [] what = "blob" -> 3

\* the kinds of the requests call c has made, in order
KindsOf(c) == [i \in 1..Len(calls[c].reqs) |-> calls[c].reqs[i].req]

\* C27: within one description resolution the requests are made in the
\* order token, manifest, sub-manifest, config blob, each of the last three
\* at most once and the sub-manifest only for an index; the description
\* command is issued only when the token command has completed, and each
\* request after the manifest request follows a request that was answered
\* with a document.
C27_StrictOrder ==
    calls[1].op = "desc"
    => LET rec == calls[1]
           ks == KindsOf(1)
       IN  /\ \A i, j \in 1..Len(ks) :
                i < j => /\ StepRank(ks[i]) <= StepRank(ks[j])
                         /\ StepRank(ks[i]) = StepRank(ks[j]) => ks[i] = "token"
           /\ \A j \in 1..Len(ks) :
                StepRank(ks[j]) >= 2
                => j > 1 /\ StepRank(ks[j - 1]) \in 1..2 /\ rec.reqs[j - 1].k = "json"
           /\ (\E j \in 1..Len(ks) : ks[j] = "submanifest") => TopIsIndex
           /\ rec.cmds \in {<<>>, <<"token">>, <<"token", "desc">>, <<"desc">>}
           /\ Len(rec.rcs) = IF rec.pc \in {"token", "spawn"} THEN Len(rec.cmds) - 1
                             ELSE Len(rec.cmds)
           /\ rec.pc \in {"token", "spawn"} => DataReqs(1) = <<>>

C27_Witness ==
    /\ RanDesc(1) /\ calls[1].cmds = <<"token", "desc">>
    /\ KindsOf(1) = <<"token", "manifest", "submanifest", "blob">>
    /\ calls[1].result # <<>>

(***************************************************************************)
(* No retries (Spec).                                                      *)
(***************************************************************************)

\* who the token requests of call c were made as, in order
TokenIds(c) == [i \in 1..Len(ReqsOf(c, "token")) |-> ReqsOf(c, "token")[i].id]

TypedTerms ==
    { <<"versa-node", "/", "acme">>,
      <<"versa-node", "/", "acme", "/", "x">>,
      <<":", "1.0">> }

\* the component with these texts typed; no row and no tag is picked by hand
\* and nothing is reloaded
NextTyped ==
    \/ \E term \in TypedTerms : onChangeIdentifier(term)
    \/ \E reg \in {"ghcr.io", "docker.io"} : onChangeRegistry(reg)
    \/ onEnter
    \/ \E e \in {"mount", "registry", "identifier"} : QueryEffect(e)
    \/ TypingTimeout
    \/ \E results \in HubResults : HubReturns(results)
    \/ SelectionEffect
    \/ \E c \in Tasks : ResumeTyped(c)
    \/ \E c \in Tasks : ResumeRow(c)
    \/ \E c \in Tasks : ResumeTags(c)
    \/ \E c \in Tasks : ResumeListing(c)
    \/ \E c \in Tasks : ResumeEnriched(c)
    \/ \E c \in Kids \cup Tasks : TokenReturns(c)
    \/ \E c \in Tasks : TagsReturns(c)
    \/ \E c \in Kids \cup Tasks : DescReturns(c)
    \/ \E c \in Tasks : OrgReturns(c)
    \/ EnrichReturns

SpecTyped == InitUiSpec /\ [][NextTyped]_vars

\* the description call of the typed-repository branch is in slot c
TypedLookup(c) == pending[c].kind = "typed" /\ calls[c].op = "desc"

\* C29: the repository name that the typed-repository branch hands to the
\* resolver (buildGhcrVersaNodeName, then parseGhcrRepoName) is non-empty
\* and contains no path separator, whatever was typed.
C29_AsClaimed ==
    \A c \in Tasks :
      TypedLookup(c)
      => /\ calls[c].repo = parseGhcrRepoName(pending[c].name)
         /\ calls[c].repo # <<>>
         /\ "/" \notin Elems(calls[c].repo)

\* a name with a path separator reaches the registry
C29_SeparatorAsked ==
    \E c \in Tasks :
      /\ TypedLookup(c) /\ calls[c].pc = "done"
      /\ calls[c].repo = <<"acme", "/", "x">>
      /\ ReqsOf(c, "manifest") # <<>>

\* an empty name is handed over and the resolver returns at once
C29_EmptyHanded ==
    \E c \in Tasks :
      /\ TypedLookup(c) /\ calls[c].pc = "done"
      /\ calls[c].repo = <<>> /\ calls[c].cmds = <<>>
      /\ imageList = <<[name |-> GHCR_NAMESPACE \o <<":", "1.0">>, description |-> <<>>]>>

(***************************************************************************)
(* The dialog error (SpecDialog).                                          *)
(***************************************************************************)

\* the component on a host whose commands succeed or are all rejected, with
\* /images/search requests that may fail
InitDialog == env \in {GoodEnv, RejectEnv} /\ InitState

NextDialog == NextUi \/ HubFails

SpecDialog == InitDialog /\ [][NextDialog]_vars

\* C30: an error message appears in the dialog only in a step in which an
\* /images/search request in flight fails; no step of a GHCR operation (org
\* listing, typed-repository lookup, tag listing, description resolution,
\* enrichment, reload), failed or not, puts one there.
C30_OnlyHubSearch ==
    [][dialogError' # "" /\ dialogError' # dialogError
       => /\ hubSearch /\ ~hubSearch'
          /\ dialogError' = "Failed to search for new images"
          /\ UNCHANGED <<calls, enrich, pending>>]_vars

\* the /images/search request has failed and, after that, the lookup of a
\* typed repository has failed too
C30_Witness ==
    /\ dialogError = "Failed to search for new images"
    /\ \E c \in Tasks :
         /\ pending[c].kind = "typed" /\ calls[c].pc = "done"
         /\ CommandFailed(c) /\ calls[c].result = <<>>

\* the package listing has failed and the dialog shows no error
C30_WitnessListing ==
    /\ dialogError = ""
    /\ \E c \in Tasks :
         /\ pending[c].kind = "enrich" /\ calls[c].op = "org"
         /\ CommandFailed(c) /\ calls[c].result = <<>>

(***************************************************************************)
(* Overlapping token acquisitions (SpecRace).                              *)
(***************************************************************************)

\* call c, made without bypass for repository acme before any token command
\* for it had completed, has issued a token command
ColdTokenCommand(c) ==
    /\ calls[c].repo = <<"acme">> /\ ~calls[c].bypass /\ ~calls[c].warm
    /\ calls[c].cmds # <<>> /\ calls[c].cmds[1] = "token"

\* C31: two overlapping non-bypass token acquisitions for the same uncached
\* repository issue a single token command between them: it never happens
\* that both callers have issued one.
C31_AsClaimed == ~(\A c \in Callers : ColdTokenCommand(c))

(***************************************************************************)
(* Overlapping searches (SpecUi).                                          *)
(***************************************************************************)

\* every search, call and effect of the component has completed
Quiescent ==
    /\ AtRest /\ ~hubSearch
    /\ \A c \in Tasks : pending[c].kind = "none"

\* the text in the search field names a repository of the organisation, so
\* that every search triggered since it was typed is a lookup of that
\* repository
TypedLast ==
    /\ isGhcrVersaNodeTerm(imageIdentifier)
    /\ TypedRepo(imageIdentifier) # <<>>
    /\ buildGhcrVersaNodeName(imageIdentifier) # DropTrailingSlashes(GHCR_NAMESPACE)

\* C32: once all overlapping searches have completed, the list and the
\* selection displayed are those of the search triggered last: when that
\* search is the lookup of a typed repository, the list is the one row of
\* that repository and the row is selected.
C32_AsClaimed ==
    Quiescent /\ TypedLast
    => /\ Len(imageList) = 1
       /\ imageList[1].name = buildGhcrVersaNodeName(imageIdentifier)
       /\ selected = 1

(***************************************************************************)
(* The selection and the displayed list (SpecUi).                          *)
(***************************************************************************)

\* C33: in every reachable state of the dialog, selected is either empty
\* (0) or the index of an entry of the displayed list.
C33_AsClaimed == selected = 0 \/ selected \in 1..Len(imageList)

(***************************************************************************)
(* Tag options and the selected row (SpecUi).                              *)
(***************************************************************************)

\* C34: once all tag requests in flight have completed, the tag options
\* are those of the repository of the selected row, also when the selection
\* changed while the tag request for the row selected before was in flight.
C34_AsClaimed ==
    /\ Quiescent
    /\ selected \in 1..Len(imageList)
    /\ tagOptions.tags # <<>>
    => tagOptions.name = imageList[selected].name

\* ---------------------------------------------------------------------------
\* C35  a resolution that began before a reload and stores after it
\* ---------------------------------------------------------------------------

EntryOf(cache, k) == IF k \in DOMAIN cache THEN <<cache[k]>> ELSE <<>>

\* call c was in flight when the reload button was pressed
BeganBeforeReload(c) ==
    /\ calls[c].pc \in {"token", "spawn"}
    /\ calls[c].nonce < reloadNonce

\* the last reload deleted the token and tag entries of c's repository
RepoInvalidated(c) ==
    /\ calls[c].repo # <<>>
    /\ \E n \in reloaded : parseGhcrRepoName(n) = calls[c].repo

\* C35: once a reload has deleted a repository's entries, no step of a
\* resolution that began before that reload changes the token entry, the tag
\* entry or the description entry of that repository.
C35_AsClaimed ==
    [][\A c \in CallIds :
          (BeganBeforeReload(c) /\ RepoInvalidated(c) /\ calls'[c] # calls[c])
          => /\ EntryOf(tokenCache', calls[c].repo) = EntryOf(tokenCache, calls[c].repo)
             /\ EntryOf(tagsCache', calls[c].repo) = EntryOf(tagsCache, calls[c].repo)
             /\ calls[c].fullName \in reloaded
                => EntryOf(descCache', DescKey(calls[c]))
                     = EntryOf(descCache, DescKey(calls[c]))]_vars

\* ---------------------------------------------------------------------------
\* C36  a failed package listing and the org-listing cache
\* ---------------------------------------------------------------------------

\* the listing command of call c completes in this step and its request
\* failed or was answered with nothing
OrgFailsNow(c) ==
    /\ calls[c].op = "org" /\ calls[c].pc = "spawn"
    /\ calls'[c].pc = "done"
    /\ \/ calls'[c].rcs = <<"fail">>
       \/ calls'[c].reqs # <<>> /\ calls'[c].reqs[1].k \in {"fail", "empty"}

\* C36: a package-listing request that errors or returns nothing leaves the
\* org-listing cache as it was.
C36_AsClaimed ==
    [][\A c \in Callers : OrgFailsNow(c) => ghcrOrgCache' = ghcrOrgCache]_vars

\* ---------------------------------------------------------------------------
\* C37  what is interpolated into the scripts
\* ---------------------------------------------------------------------------

\* the fragments of typed text that are not made of [A-Za-z0-9._-]
OutsideSafeSet == {"/", ":", "@", " "}

\* the REPO= line, and for a description the TAG= line, of the scripts that
\* call c has handed to the command runner
ScriptRepo(c) == IF calls[c].cmds = <<>> THEN <<>> ELSE calls[c].repo
ScriptTag(c) == IF "desc" \in Elems(calls[c].cmds) THEN calls[c].tag ELSE latest

\* C37: the repository name and the tag interpolated into a script consist
\* only of characters in [A-Za-z0-9._-].
C37_AsClaimed ==
    \A c \in CallIds :
      /\ Elems(ScriptRepo(c)) \cap OutsideSafeSet = {}
      /\ IsSafeTag(ScriptTag(c))

(***************************************************************************)
(* The description pipeline of src/src/ImageRunModal.jsx, which keeps no   *)
(* cache, next to the cached one (SpecPipelines).                          *)
(***************************************************************************)

\* the script of ImageRunModal.jsx's fetchGhcrOciDescriptionViaSpawn.  It
\* fetches the manifest, then runs
\*     TYPE="$(python3 - <<'PY' 2>/dev/null
\*     ...
\*     PY
\*     <<< "$MAN")"
\* The here-document is python's standard input, so python reads its program
\* from it and json.load(sys.stdin) finds the input exhausted; the line
\* <<< "$MAN" is a command of its own with status 0.  TYPE is empty for
\* every manifest and the script ends in the branch  *) echo ""; exit 0.
RunModalDescScript(token, tag, e) ==
    IF ~e.spawnOk THEN [rc |-> "fail", out |-> <<>>, reqs |-> <<>>]
    ELSE [rc |-> "ok", out |-> <<>>, reqs |-> <<Req("manifest", tag, token, e.top)>>]

\* ImageRunModal.jsx's fetchGhcrOciDescriptionViaSpawn up to its first await
RunModalDescStart(c, fullName, tagIn) ==
    /\ Free(c)
    /\ LET repo == parseGhcrRepoName(fullName)
           rec == NewCall("rundesc", fullName, repo, NormalizeTag(tagIn), FALSE)
       IN  calls' = [calls EXCEPT ![c] =
                       IF repo = <<>> THEN Return(rec, <<>>)
                       ELSE [rec EXCEPT !.pc = "token", !.cmds = <<"token">>]]
    /\ UNCHANGED <<ui, env, clock, ghcrOrgCache, descCache, tagsCache, tokenCache, enrich,
                   tokenDone>>

\* its token command completes: ghcrGetRegistryTokenViaSpawn of
\* ImageRunModal.jsx returns the token, or "" on any failure, and stores
\* nothing
RunModalTokenReturns(c) ==
    /\ calls[c].pc = "token" /\ calls[c].op = "rundesc"
    /\ LET res == TokenScript(env)
           token == TokenSettle(res).val
       IN  calls' = [calls EXCEPT ![c] =
                       [@ EXCEPT !.pc = "spawn", !.token = token,
                                 !.reqs = @ \o res.reqs, !.rcs = Append(@, res.rc),
                                 !.cmds = Append(@, "rundesc")]]
    /\ UNCHANGED <<ui, env, clock, ghcrOrgCache, descCache, tagsCache, tokenCache, enrich,
                   tokenDone>>

\* its description command completes:  return (out || "").trim(), or "" when
\* the command was rejected
RunModalDescReturns(c) ==
    /\ calls[c].pc = "spawn" /\ calls[c].op = "rundesc"
    /\ LET res == RunModalDescScript(calls[c].token, calls[c].tag, env)
           seen == [calls[c] EXCEPT !.reqs = @ \o res.reqs, !.rcs = Append(@, res.rc)]
       IN  calls' = [calls EXCEPT ![c] =
                       Return(seen, IF res.rc = "fail" THEN <<>> ELSE Trim(res.out))]
    /\ UNCHANGED <<ui, env, clock, ghcrOrgCache, descCache, tagsCache, tokenCache, enrich,
                   tokenDone>>

\* every answer of the manifest endpoint, on a registry whose other
\* endpoints answer
PipelineEnvs == { [GoodEnv EXCEPT !.top = t] : t \in TopDocs }

InitPipelines == env \in PipelineEnvs /\ InitState

\* caller 1 uses the cached pipeline, caller 2 the one without a cache
NextPipelines ==
    \/ \E tagIn \in {latest, <<>>, <<"1">>} :
         fetchGhcrOciDescriptionViaSpawn(1, Acme, tagIn, FALSE)
    \/ TokenReturns(1)
    \/ DescReturns(1)
    \/ \E tagIn \in {latest, <<>>, <<"1">>} : RunModalDescStart(2, Acme, tagIn)
    \/ RunModalTokenReturns(2)
    \/ RunModalDescReturns(2)

SpecPipelines == InitPipelines /\ [][NextPipelines]_vars

\* call c has run the whole pipeline: nothing was served from a cache
RanPipeline(c) == calls[c].pc = "done" /\ Len(calls[c].cmds) = 2

\* C38: on the same registry content and for the same repository and tag,
\* the cached pipeline started with empty caches and the pipeline without a
\* cache return the same description.
C38_AsClaimed ==
    /\ RanPipeline(1) /\ calls[1].op = "desc"
    /\ RanPipeline(2) /\ calls[2].op = "rundesc"
    /\ calls[1].fullName = calls[2].fullName /\ calls[1].tag = calls[2].tag
    => calls[1].result = calls[2].result

(***************************************************************************)
(* The Download button (SpecDownload).                                     *)
(***************************************************************************)

\* a text fragment of the form sha256:<64 hex>
Sha256Fragment == "sha256:e3b0c44298fc1c149afbf4c8996fb92427ae41e4649b934ca495991b7852b855"

\* /^@?sha256:[a-f0-9]{64}$/i.test(raw)
IsDigestText(raw) == raw = <<Sha256Fragment>> \/ raw = <<"@", Sha256Fragment>>

DownloadTagUntrimmed(options, chosen, custom) ==
    LET raw == IF options # <<>> THEN (IF chosen = <<>> THEN latest ELSE chosen)
               ELSE (IF custom = <<>> THEN latest ELSE custom)
    IN  IF IsDigestText(raw) /\ Head(raw) # "@" THEN <<"@">> \o raw ELSE raw

DownloadTagBareDigest(options, chosen, custom) ==
    IF options # <<>> THEN (IF chosen = <<>> THEN latest ELSE chosen)
    ELSE (IF Trim(custom) = <<>> THEN latest ELSE Trim(custom))

\* const raw = tagOptions.length > 0 ? (selectedTag || "latest")
\*                                   : ((customTag || "").trim() || "latest");
\* const tagOrDigest = isDigest ? (raw.startsWith('@') ? raw : '@' + raw) : raw
DownloadTag(options, chosen, custom) ==
    LET raw == IF options # <<>> THEN (IF chosen = <<>> THEN latest ELSE chosen)
               ELSE (IF Trim(custom) = <<>> THEN latest ELSE Trim(custom))
    IN  IF IsDigestText(raw) /\ Head(raw) # "@" THEN <<"@">> \o raw ELSE raw

\* what the custom tag field may hold when Download is clicked
CustomTags ==
    { <<>>, <<" ">>, <<" ", "1", " ">>, <<" ", Sha256Fragment>>,
      <<"@", Sha256Fragment>>, <<"sha256:e3b0">> }

\* the user clicks Download with customTag in the custom tag field.  A
\* `selected` that is no index of imageList makes imageList[selected].name
\* throw before anything is closed or downloaded.
onDownloadClicked(customTag) ==
    /\ AtRest /\ UserEvent
    /\ downloaded.k # "called"
    /\ downloaded' =
         IF imageList = <<>> \/ selected = 0
         THEN [NoDownload EXCEPT !.k = "ignored", !.custom = customTag,
                                 !.n = downloaded.n + 1]
         ELSE IF selected \notin 1..Len(imageList)
         THEN [NoDownload EXCEPT !.k = "threw", !.custom = customTag,
                                 !.n = downloaded.n + 1]
         ELSE [k |-> "called", name |-> imageList[selected].name,
               tag |-> DownloadTag(tagOptions.tags, selectedTag, customTag),
               custom |-> customTag, n |-> downloaded.n + 1]
    /\ UNCHANGED <<imageIdentifier, selectedRegistry, imageList, selected, selectedTag,
                   reloadNonce, pending, hubSearch, dueEffects, dialogError, tagOptions,
                   reloaded, state>>
    /\ UNCHANGED <<env, clock, ghcrOrgCache, descCache, tagsCache, tokenCache, calls,
                   enrich, tokenDone>>

\* the component with the Download button; the registry stays ghcr.io
NextDownload ==
    \/ \E term \in Terms : onChangeIdentifier(term)
    \/ \E i \in 1..MaxList : onSelect(i)
    \/ \E tag \in PickableTags : onTagSelect(tag)
    \/ \E customTag \in CustomTags : onDownloadClicked(customTag)
    \/ onEnter
    \/ \E e \in {"mount", "registry", "identifier"} : QueryEffect(e)
    \/ TypingTimeout
    \/ SelectionEffect
    \/ TagEffect
    \/ \E c \in Tasks : ResumeTyped(c)
    \/ \E c \in Tasks : ResumeRow(c)
    \/ \E c \in Tasks : ResumeTags(c)
    \/ \E c \in Tasks : ResumeListing(c)
    \/ \E c \in Tasks : ResumeEnriched(c)
    \/ \E c \in Kids \cup Tasks : TokenReturns(c)
    \/ \E c \in Tasks : TagsReturns(c)
    \/ \E c \in Kids \cup Tasks : DescReturns(c)
    \/ \E c \in Tasks : OrgReturns(c)
    \/ EnrichReturns

SpecDownload == InitUiSpec /\ [][NextDownload]_vars

\* ---------------------------------------------------------------------------
\* C39  what Download is invoked with
\* ---------------------------------------------------------------------------

\* t with a leading '@' removed
WithoutAt(t) == IF t # <<>> /\ t[1] = "@" THEN Tail(t) ELSE t

\* core is text with the blanks around it removed
IsCoreOf(core, text) ==
    /\ core = <<>> \/ (core[1] # " " /\ core[Len(core)] # " ")
    /\ \E i \in 0..Len(text) :
         /\ i + Len(core) <= Len(text)
         /\ SubSeq(text, i + 1, i + Len(core)) = core
         /\ \A j \in 1..Len(text) : (j <= i \/ j > i + Len(core)) => text[j] = " "

\* tag is what the claim says of the selected tag chosen, the tag options
\* and the custom tag custom
TagAsClaimed(tag, options, chosen, custom) ==
    /\ tag # <<>>
    /\ options # <<>>
       => WithoutAt(tag) = WithoutAt(IF chosen = <<>> THEN latest ELSE chosen)
    /\ options = <<>>
       => \/ IsCoreOf(tag, custom)
          \/ IsCoreOf(WithoutAt(tag), custom) /\ WithoutAt(tag) # <<>>
          \/ IsCoreOf(<<>>, custom) /\ tag = latest
    /\ WithoutAt(tag) = <<Sha256Fragment>> => tag[1] = "@"

\* C39: a click on Download does nothing when the list is empty or no row
\* is selected; download is invoked only with the name of the selected row
\* and a non-empty tag: the selected tag when tag options exist, else the
\* trimmed custom tag, "latest" when that is empty, and with a leading '@'
\* when the value is sha256:<64 hex>.
C39_DownloadArgs ==
    [][downloaded'.n # downloaded.n
       => /\ (imageList = <<>> \/ selected = 0) => downloaded'.k = "ignored"
          /\ selected \in 1..Len(imageList) => downloaded'.k = "called"
          /\ downloaded'.k = "called"
             => /\ selected \in 1..Len(imageList)
                /\ downloaded'.name = imageList[selected].name
                /\ TagAsClaimed(downloaded'.tag, tagOptions.tags, selectedTag,
                                downloaded'.custom)]_vars

\* a digest typed with a blank before it is downloaded with a leading '@'
C39_Witness ==
    /\ downloaded.k = "called" /\ downloaded.name = Acme
    /\ downloaded.custom = <<" ", Sha256Fragment>>
    /\ downloaded.tag = <<"@", Sha256Fragment>>
    /\ tagOptions.tags = <<>>

\* with tag options the selected tag is downloaded, whatever was typed
C39_WitnessOptions ==
    /\ downloaded.k = "called" /\ downloaded.custom = <<" ", "1", " ">>
    /\ tagOptions.tags # <<>> /\ selectedTag = <<"2">> /\ downloaded.tag = <<"2">>

\* nothing is downloaded when no row is selected
C39_WitnessIgnored ==
    /\ downloaded.k = "ignored" /\ imageList # <<>> /\ selected = 0

(***************************************************************************)
(* The operations of DynamicListForm (SpecForm).  idx counts from 0 as in  *)
(* the source; list[idx + 1] is the row at idx.                            *)
(***************************************************************************)
\* nothing but the form changes
OnlyForm ==
    UNCHANGED <<env, clock, ghcrOrgCache, descCache, tagsCache, tokenCache, calls, enrich,
                tokenDone, imageIdentifier, selectedRegistry, imageList, selected,
                selectedTag, reloadNonce, pending, hubSearch, dueEffects, dialogError,
                tagOptions, reloaded, downloaded, userEvents>>

\* items with the slot at idx set to row; the array grows, with holes, when
\* idx is past its end
SetSlot(items, idx, row) ==
    [i \in 1..Max({Len(items), idx + 1}) |->
        IF i = idx + 1 THEN row ELSE IF i <= Len(items) THEN items[i] ELSE Hole]

\* addItem(): { list: [...state.list, { key: state.keyCounter, ...default }],
\*              keyCounter: state.keyCounter + 1 }
addItem ==
    /\ Len(state.list) < MaxRows /\ state.keyCounter < MaxKey
    /\ state' = [list |-> Append(state.list, Row(state.keyCounter, "none")),
                 keyCounter |-> state.keyCounter + 1]
    /\ OnlyForm

\* removeItem(idx): const items = [...state.list]; delete items[idx]
removeItem(idx) ==
    /\ state' = [state EXCEPT !.list = IF idx < Len(@) THEN SetSlot(@, idx, Hole) ELSE @]
    /\ OnlyForm

\* onItemChange(idx, field, value): a missing row is created with the next
\* key, a row without key is given it, the field is set (undefined as null),
\* and keyCounter advances when the row's key equals it
onItemChange(idx, value) ==
    /\ state.keyCounter < MaxKey
    /\ LET items == state.list
           missing == idx >= Len(items) \/ ~items[idx + 1].present
           key == IF missing \/ ~items[idx + 1].hasKey THEN state.keyCounter
                  ELSE items[idx + 1].key
       IN  state' = [list |-> SetSlot(items, idx, Row(key, value)),
                     keyCounter |-> IF key = state.keyCounter THEN state.keyCounter + 1
                                    ELSE state.keyCounter]
    /\ OnlyForm

\* what props.value may be at construction: nothing, rows that carry no
\* key yet, and a list this component emitted through props.onChange
FormValues ==
    { <<>>,
      <<Unkeyed("a")>>,
      <<Unkeyed("a"), Unkeyed("null")>>,
      <<Row(0, "a")>>,
      <<Row(0, "a"), Row(1, "none")>>,
      <<Row(0, "a"), Hole, Row(2, "a")>> }

InitForm ==
    /\ env = GoodEnv /\ InitRest
    /\ state \in { DynamicListForm(value) : value \in FormValues }

NextForm ==
    \/ addItem
    \/ \E idx \in 0..(MaxRows - 1) : removeItem(idx)
    \/ \E idx \in 0..(MaxRows - 1), value \in {"a", "null"} : onItemChange(idx, value)

SpecForm == InitForm /\ [][NextForm]_vars

\* ---------------------------------------------------------------------------
\* C40  rows, keys and keyCounter of DynamicListForm
\* ---------------------------------------------------------------------------

\* the indexes (from 1) of the rows present in list l
PresentIn(l) == { i \in 1..Len(l) : l[i].present }

\* a row that is present before and after the step keeps its key
KeysStay ==
    \A i \in PresentIn(state.list) \cap PresentIn(state'.list) :
      state'.list[i].key = state.list[i].key

\* a step that removes a row changes no other slot
RemovalLeavesOthers ==
    \A i \in PresentIn(state.list) \ PresentIn(state'.list) :
      /\ Len(state'.list) = Len(state.list)
      /\ \A j \in 1..Len(state.list) : j # i => state'.list[j] = state.list[j]

\* no two rows present in l carry the same key
DistinctKeys(l) ==
    \A i, j \in PresentIn(l) : i # j => l[i].key # l[j].key

\* C40: through addItem, removeItem and onItemChange, removing a row leaves
\* the index and key of every other row as they were, keyCounter never
\* decreases, and no two present rows carry the same key.
C40_AsClaimed ==
    [][/\ KeysStay
       /\ RemovalLeavesOthers
       /\ state'.keyCounter >= state.keyCounter
       /\ DistinctKeys(state'.list)]_vars

=========================================================================
